---- MODULE Spec2Model ----
(***************************************************************************)
(* A model of the configurator library: the provider pipeline              *)
(* (Configurator.Load), the Default, Env, Secrets and Dynamic providers,   *)
(* the reflection-based path resolver and coercion engine, and the         *)
(* DefaultValidator with its rules.                                        *)
(*                                                                         *)
(* Go values are modelled as records of a kind, a type and the data: a     *)
(* boolean b, a number n, a string s, or a list l of values (the fields of *)
(* a struct, the elements of a slice, the target of a non-nil pointer).    *)
(* Go strings are TLA+ strings.  The 64-bit machine word of int, int64,    *)
(* uint and uint64 is scaled down to WordBits bits; int8/uint8 and         *)
(* int16/uint16 keep their true widths.  A float64 is modelled as a        *)
(* fixed-point number counted in tenths.                                   *)
(***************************************************************************)
EXTENDS Integers, Sequences, FiniteSets, TLC

VARIABLES
    providers,   \* Configurator.providers: the registered providers, in order
    validator,   \* Configurator.validator: "nil" or a validator
    environ,     \* the process environment: variable name -> value
    secretsDir,  \* the secrets mount directory: sequence of directory entries
    goarch,      \* the architecture the program is built for
    observers,   \* ObservableConfigurator.observers: the registered observers, in order
    last,        \* the most recent Configurator.Load call: inputs, invocations, outcome
    arg,         \* input of the function under study (function-level specifications)
    res          \* its result

vars == <<providers, validator, environ, secretsDir, goarch, observers, last, arg, res>>

\* The width the 64-bit word is scaled to.
WordBits == 20

Pow2(n) == 2 ^ n

NoErr == <<>>

-----------------------------------------------------------------------------
(* strings and strconv *)

Char(s, i) == SubSeq(s, i, i)

LowerLetters == "abcdefghijklmnopqrstuvwxyz"
UpperLetters == "ABCDEFGHIJKLMNOPQRSTUVWXYZ"
Digits == "0123456789"

IndexIn(alphabet, c) ==
    IF \E i \in 1..Len(alphabet) : Char(alphabet, i) = c
    THEN CHOOSE i \in 1..Len(alphabet) : Char(alphabet, i) = c
    ELSE 0

RECURSIVE MapChars(_, _, _)
MapChars(s, from, to) ==
    IF s = "" THEN ""
    ELSE LET c == Char(s, 1)
             i == IndexIn(from, c)
         IN (IF i = 0 THEN c ELSE Char(to, i)) \o MapChars(Tail(s), from, to)

\* strings.ToUpper, strings.ToLower (ASCII)
ToUpper(s) == MapChars(s, LowerLetters, UpperLetters)
ToLower(s) == MapChars(s, UpperLetters, LowerLetters)

\* strings.Title: the first letter of each word upper-cased.  The words it is
\* applied to here hold no separator, so only the first character changes.
Title(s) == IF s = "" THEN "" ELSE ToUpper(Char(s, 1)) \o Tail(s)

IsSpace(c) == c \in {" ", "\t", "\n", "\r"}

RECURSIVE TrimLeft(_)
TrimLeft(s) == IF s # "" /\ IsSpace(Char(s, 1)) THEN TrimLeft(Tail(s)) ELSE s

RECURSIVE TrimRight(_)
TrimRight(s) ==
    IF s # "" /\ IsSpace(Char(s, Len(s))) THEN TrimRight(SubSeq(s, 1, Len(s) - 1)) ELSE s

\* strings.TrimSpace
TrimSpace(s) == TrimRight(TrimLeft(s))

\* Position of the first occurrence of the one-character separator, 0 if none.
IndexOf(s, sep) ==
    IF \E i \in 1..Len(s) : Char(s, i) = sep
    THEN CHOOSE i \in 1..Len(s) : Char(s, i) = sep /\ \A j \in 1..(i - 1) : Char(s, j) # sep
    ELSE 0

\* strings.Split(s, sep) for a one-character separator
RECURSIVE Split(_, _)
Split(s, sep) ==
    LET i == IndexOf(s, sep)
    IN IF i = 0 THEN <<s>>
       ELSE <<SubSeq(s, 1, i - 1)>> \o Split(SubSeq(s, i + 1, Len(s)), sep)

\* strings.SplitN(s, sep, 2)
SplitN2(s, sep) ==
    LET i == IndexOf(s, sep)
    IN IF i = 0 THEN <<s>> ELSE <<SubSeq(s, 1, i - 1), SubSeq(s, i + 1, Len(s))>>

\* strings.Join
RECURSIVE Join(_, _)
Join(parts, sep) ==
    IF Len(parts) = 0 THEN ""
    ELSE IF Len(parts) = 1 THEN parts[1]
    ELSE parts[1] \o sep \o Join(Tail(parts), sep)

AllDigits(s) == \A i \in 1..Len(s) : IndexIn(Digits, Char(s, i)) # 0

RECURSIVE DecimalValue(_)
DecimalValue(s) ==
    IF s = "" THEN 0
    ELSE DecimalValue(SubSeq(s, 1, Len(s) - 1)) * 10 + (IndexIn(Digits, Char(s, Len(s))) - 1)

\* strconv.ParseUint(s, 10, 64): no sign allowed, digits only, range error past
\* the largest unsigned word.
ParseUint(s) ==
    IF s = "" \/ ~AllDigits(s) THEN [err |-> "syntax", val |-> 0]
    ELSE IF DecimalValue(s) > Pow2(WordBits) - 1 THEN [err |-> "range", val |-> 0]
    ELSE [err |-> "", val |-> DecimalValue(s)]

\* strconv.ParseInt(s, 10, 64): optional sign, then ParseUint, then the signed
\* range check.
Signed(neg, un, cutoff) ==
    IF un.err # "" THEN [err |-> un.err, val |-> 0]
    ELSE IF ~neg /\ un.val >= cutoff THEN [err |-> "range", val |-> 0]
    ELSE IF neg /\ un.val > cutoff THEN [err |-> "range", val |-> 0]
    ELSE [err |-> "", val |-> IF neg THEN -un.val ELSE un.val]

ParseInt(s) ==
    IF s = "" THEN [err |-> "syntax", val |-> 0]
    ELSE Signed(Char(s, 1) = "-",
                ParseUint(IF Char(s, 1) \in {"+", "-"} THEN Tail(s) ELSE s),
                Pow2(WordBits - 1))

\* strconv.ParseBool
ParseBool(s) ==
    IF s \in {"1", "t", "T", "TRUE", "true", "True"} THEN [err |-> "", val |-> TRUE]
    ELSE IF s \in {"0", "f", "F", "FALSE", "false", "False"} THEN [err |-> "", val |-> FALSE]
    ELSE [err |-> "syntax", val |-> FALSE]

\* strconv.ParseFloat(s, 64) on decimal literals [sign]digits[.digit]; the
\* result is counted in tenths.  Other forms are syntax errors here (the
\* inputs drawn below use no exponent and at most one fractional digit).
Tenths(neg, ip, fp) ==
    IF ip = "" \/ ~AllDigits(ip) \/ Len(fp) # 1 \/ ~AllDigits(fp)
    THEN [err |-> "syntax", val |-> 0]
    ELSE [err |-> "", val |-> IF neg THEN -(DecimalValue(ip) * 10 + DecimalValue(fp))
                                    ELSE DecimalValue(ip) * 10 + DecimalValue(fp)]

Unsigned(neg, rest, dot) ==
    Tenths(neg,
           IF dot = 0 THEN rest ELSE SubSeq(rest, 1, dot - 1),
           IF dot = 0 THEN "0" ELSE SubSeq(rest, dot + 1, Len(rest)))

UnsignedPart(neg, rest) == Unsigned(neg, rest, IndexOf(rest, "."))

ParseFloat(s) ==
    IF s = "" THEN [err |-> "syntax", val |-> 0]
    ELSE UnsignedPart(Char(s, 1) = "-", IF Char(s, 1) \in {"+", "-"} THEN Tail(s) ELSE s)

-----------------------------------------------------------------------------
(* reflect: kinds, values, types *)

IntKinds   == {"int", "int8", "int16", "int64"}
UintKinds  == {"uint", "uint8", "uint16", "uint64"}
FloatKinds == {"float64"}

\* Size in bits of an integer kind.
Bits(k) ==
    CASE k \in {"int8", "uint8"}   -> 8
      [] k \in {"int16", "uint16"} -> 16
      [] OTHER                     -> WordBits

\* A Go value as reflect sees it: kind, type and data.
Val(k, t, b, n, s, l) == [k |-> k, t |-> t, b |-> b, n |-> n, s |-> s, l |-> l]

BoolVal(t, b)   == Val("bool", t, b, 0, "", << >>)
NumVal(k, t, n) == Val(k, t, FALSE, n, "", << >>)
StrVal(t, s)    == Val("string", t, FALSE, 0, s, << >>)
ListVal(k, t, l) == Val(k, t, FALSE, 0, "", l)

\* reflect.ValueOf(nil): the zero Value, of kind Invalid.
Invalid == Val("invalid", "", FALSE, 0, "", << >>)

NilPtr(t)     == ListVal("ptr", t, << >>)
PtrTo(t, e)   == ListVal("ptr", t, <<e>>)

\* A []string holding the given strings.
StringSlice(strs) == ListVal("slice", "[]string", [i \in 1..Len(strs) |-> StrVal("string", strs[i])])

\* Value.IsNil of a pointer, and Value.Elem: the zero Value when it is nil.
IsNil(p) == p.l = << >>
Elem(p) == IF IsNil(p) THEN Invalid ELSE p.l[1]

\* Value.OverflowInt, OverflowUint, OverflowFloat for a field of kind k.
OverflowInt(k, x)  == x < -Pow2(Bits(k) - 1) \/ x > Pow2(Bits(k) - 1) - 1
OverflowUint(k, x) == x > Pow2(Bits(k)) - 1
OverflowFloat(k, x) == FALSE

\* The conversions uint64(i) of an int64 and int64(u) of a uint64: the same
\* bits read with the other signedness.
ToUint64(i) == i % Pow2(WordBits)
ToInt64(u)  == IF u >= Pow2(WordBits - 1) THEN u - Pow2(WordBits) ELSE u

\* float64(i), and a float with its fraction discarded, on tenths.
ToFloat(i) == i * 10
Truncate(f) == IF f >= 0 THEN f \div 10 ELSE -((-f) \div 10)

\* The conversion int64(f): the truncation when int64 can represent it.
\* Otherwise the result depends on the implementation: the amd64 conversion
\* instruction yields the most negative integer, the arm64 one saturates.
Int64OfFloat(f) ==
    IF Truncate(f) >= -Pow2(WordBits - 1) /\ Truncate(f) <= Pow2(WordBits - 1) - 1
    THEN Truncate(f)
    ELSE IF goarch = "arm64" /\ f > 0 THEN Pow2(WordBits - 1) - 1
    ELSE -Pow2(WordBits - 1)

\* The conversion uint64(f): the truncation when uint64 can represent it.
\* Otherwise, as above: on amd64 the top bit alone above the range and the
\* bits of int64(f) below it, on arm64 the nearest bound.
Uint64OfFloat(f) ==
    IF Truncate(f) >= 0 /\ Truncate(f) <= Pow2(WordBits) - 1
    THEN Truncate(f)
    ELSE IF goarch = "arm64" THEN (IF f < 0 THEN 0 ELSE Pow2(WordBits) - 1)
    ELSE IF f < 0 THEN ToUint64(Int64OfFloat(f))
    ELSE Pow2(WordBits - 1)

\* A struct field's declaration: name, kind, type, env tag, validate tag, and
\* whether the name is exported.
FieldDecl(name, k, t, envTag, validateTag) ==
    [name |-> name, k |-> k, t |-> t, env |-> envTag, validate |-> validateTag,
     exported |-> TRUE]

\* The record types used below.
\*   type Level int
\*   type Config struct {
\*       Server struct {
\*           Host string `env:"SERVER_HOST" validate:"required"`
\*           Port int    `env:"SERVER_PORT" validate:"range:1-65535"`
\*       }
\*       Db struct {
\*           Pass string `env:"db_pass" validate:"required"`
\*           Pool struct { Size int16 `env:"POOL_SIZE"` }
\*       }
\*       Limit uint8    `env:"LIMIT" validate:"required"`
\*       Tags  []string
\*   }
\*   type Scalars struct {
\*       Flag bool; Count int; Small int8; Wide uint16; Ratio float64
\*       Name string; Lvl Level
\*   }
\*   type Required struct {      // every field tagged validate:"required"
\*       S string; I int; U uint; F float64; L []string
\*       M map[string]string; P *Pool
\*   }
\*   type Nested struct {
\*       Server struct { Port int; Name string `env:"NAME"` }
\*       Depth  struct { Inner struct { Level int8 } }
\*       Top    int
\*   }
\*   type Leaf struct { Depth int `validate:"range:1-9"` }
\*   type Chain struct { Id int; Next *Chain }
\*   type Ping struct { Other *Pong }
\*   type Pong struct { Hops int; Back *Ping }
\*   type Mid struct { Size int; Ref *Leaf }
\*   type Outer struct {
\*       Name string
\*       Link *Mid
\*       Box  struct { Ref *Leaf }
\*   }
\*   type Tree struct {
\*       Name string `validate:"required"`
\*       Node struct {
\*           Size int `validate:"required,min:2,max:5"`
\*           Leaf Leaf
\*       } `validate:"required"`
\*       Back *Leaf
\*       Last int `validate:"required"`
\*   }
StructDef(t) ==
    CASE t = "Config" ->
            << FieldDecl("Server", "struct", "Server", "", ""),
               FieldDecl("Db", "struct", "Db", "", ""),
               FieldDecl("Limit", "uint8", "uint8", "LIMIT", "required"),
               FieldDecl("Tags", "slice", "[]string", "", "") >>
      [] t = "Server" ->
            << FieldDecl("Host", "string", "string", "SERVER_HOST", "required"),
               FieldDecl("Port", "int", "int", "SERVER_PORT", "range:1-65535") >>
      [] t = "Db" ->
            << FieldDecl("Pass", "string", "string", "db_pass", "required"),
               FieldDecl("Pool", "struct", "Pool", "", "") >>
      [] t = "Pool" ->
            << FieldDecl("Size", "int16", "int16", "POOL_SIZE", "") >>
      [] t = "Scalars" ->
            << FieldDecl("Flag", "bool", "bool", "", ""),
               FieldDecl("Count", "int", "int", "", ""),
               FieldDecl("Small", "int8", "int8", "", ""),
               FieldDecl("Wide", "uint16", "uint16", "", ""),
               FieldDecl("Ratio", "float64", "float64", "", ""),
               FieldDecl("Name", "string", "string", "", ""),
               FieldDecl("Lvl", "int", "Level", "", "") >>
      [] t = "Required" ->
            << FieldDecl("S", "string", "string", "", "required"),
               FieldDecl("I", "int", "int", "", "required"),
               FieldDecl("U", "uint", "uint", "", "required"),
               FieldDecl("F", "float64", "float64", "", "required"),
               FieldDecl("L", "slice", "[]string", "", "required"),
               FieldDecl("M", "map", "map[string]string", "", "required"),
               FieldDecl("P", "ptr", "*Pool", "", "required") >>
      [] t = "Nested" ->
            << FieldDecl("Server", "struct", "NestedServer", "", ""),
               FieldDecl("Depth", "struct", "Depth", "", ""),
               FieldDecl("Top", "int", "int", "", "") >>
      [] t = "NestedServer" ->
            << FieldDecl("Port", "int", "int", "", ""),
               FieldDecl("Name", "string", "string", "NAME", "") >>
      [] t = "Depth" ->
            << FieldDecl("Inner", "struct", "Inner", "", "") >>
      [] t = "Inner" ->
            << FieldDecl("Level", "int8", "int8", "", "") >>
      [] t = "Chain" ->
            << FieldDecl("Id", "int", "int", "", ""),
               FieldDecl("Next", "ptr", "*Chain", "", "") >>
      [] t = "Ping" ->
            << FieldDecl("Other", "ptr", "*Pong", "", "") >>
      [] t = "Pong" ->
            << FieldDecl("Hops", "int", "int", "", ""),
               FieldDecl("Back", "ptr", "*Ping", "", "") >>
      [] t = "Outer" ->
            << FieldDecl("Name", "string", "string", "", ""),
               FieldDecl("Link", "ptr", "*Mid", "", ""),
               FieldDecl("Box", "struct", "Box", "", "") >>
      [] t = "Mid" ->
            << FieldDecl("Size", "int", "int", "", ""),
               FieldDecl("Ref", "ptr", "*Leaf", "", "") >>
      [] t = "Box" ->
            << FieldDecl("Ref", "ptr", "*Leaf", "", "") >>
      [] t = "Leaf" ->
            << FieldDecl("Depth", "int", "int", "", "range:1-9") >>
      [] t = "Tree" ->
            << FieldDecl("Name", "string", "string", "", "required"),
               FieldDecl("Node", "struct", "Node", "", "required"),
               FieldDecl("Back", "ptr", "*Leaf", "", ""),
               FieldDecl("Last", "int", "int", "", "required") >>
      [] t = "Node" ->
            << FieldDecl("Size", "int", "int", "", "required,min:2,max:5"),
               FieldDecl("Leaf", "struct", "Leaf", "", "") >>
      [] OTHER -> << >>

\* The element type of a pointer or slice type.
ElemType(t) ==
    CASE t = "*Config"  -> [k |-> "struct", t |-> "Config"]
      [] t = "*Scalars" -> [k |-> "struct", t |-> "Scalars"]
      [] t = "*Required" -> [k |-> "struct", t |-> "Required"]
      [] t = "*Pool"    -> [k |-> "struct", t |-> "Pool"]
      [] t = "*Nested"  -> [k |-> "struct", t |-> "Nested"]
      [] t = "*Tree"    -> [k |-> "struct", t |-> "Tree"]
      [] t = "*Leaf"    -> [k |-> "struct", t |-> "Leaf"]
      [] t = "*Outer"   -> [k |-> "struct", t |-> "Outer"]
      [] t = "*Chain"   -> [k |-> "struct", t |-> "Chain"]
      [] t = "*Ping"    -> [k |-> "struct", t |-> "Ping"]
      [] t = "*Pong"    -> [k |-> "struct", t |-> "Pong"]
      [] t = "*Mid"     -> [k |-> "struct", t |-> "Mid"]
      [] t = "*int"     -> [k |-> "int", t |-> "int"]
      [] t = "[]string" -> [k |-> "string", t |-> "string"]
      [] t = "[]int"    -> [k |-> "int", t |-> "int"]
      [] OTHER          -> [k |-> "invalid", t |-> ""]

\* The zero value of a type.
RECURSIVE Zero(_, _)
Zero(k, t) ==
    CASE k = "bool"        -> BoolVal(t, FALSE)
      [] k \in IntKinds    -> NumVal(k, t, 0)
      [] k \in UintKinds   -> NumVal(k, t, 0)
      [] k \in FloatKinds  -> NumVal(k, t, 0)
      [] k = "string"      -> StrVal(t, "")
      [] k = "slice"       -> ListVal(k, t, << >>)
      [] k = "map"         -> ListVal(k, t, << >>)
      [] k = "ptr"         -> NilPtr(t)
      [] k = "struct"      ->
            ListVal(k, t, [i \in 1..Len(StructDef(t)) |->
                              Zero(StructDef(t)[i].k, StructDef(t)[i].t)])
      [] OTHER             -> Invalid

\* Value.FieldByName: the index of the field, 0 when the struct has none.
FieldByName(t, name) ==
    IF \E i \in 1..Len(StructDef(t)) : StructDef(t)[i].name = name
    THEN CHOOSE i \in 1..Len(StructDef(t)) : StructDef(t)[i].name = name
    ELSE 0

\* A field is reached by its location: the field indices from the record's
\* struct down, pointers on the way dereferenced.
RECURSIVE GetAt(_, _)
GetAt(v, loc) ==
    IF loc = << >> THEN v
    ELSE LET s == IF v.k = "ptr" THEN Elem(v) ELSE v
         IN GetAt(s.l[Head(loc)], Tail(loc))

RECURSIVE PutAt(_, _, _)
PutAt(v, loc, nv) ==
    IF loc = << >> THEN nv
    ELSE IF v.k = "ptr"
         THEN [v EXCEPT !.l[1] = PutAt(v.l[1], loc, nv)]
         ELSE [v EXCEPT !.l[Head(loc)] = PutAt(v.l[Head(loc)], Tail(loc), nv)]

\* The reflect.Value of a field: its value with CanSet.
FieldValue(v, canSet) ==
    [k |-> v.k, t |-> v.t, b |-> v.b, n |-> v.n, s |-> v.s, l |-> v.l, canSet |-> canSet]

Stored(field) == Val(field.k, field.t, field.b, field.n, field.s, field.l)

\* Value.SetBool, SetInt/SetUint/SetFloat, SetString, and Set of a slice.
SetBool(field, b)   == [field EXCEPT !.b = b]
SetNum(field, n)    == [field EXCEPT !.n = n]
SetString(field, s) == [field EXCEPT !.s = s]
SetList(field, l)   == [field EXCEPT !.l = l]

-----------------------------------------------------------------------------
(* the coercion engine *)

ErrInvalidConfig    == <<"ErrInvalidConfig">>
ErrFieldNotSettable == <<"ErrFieldNotSettable">>
ErrIncompatibleType == <<"ErrIncompatibleType">>
ErrFieldNotFound    == <<"ErrFieldNotFound">>

Converted(field)    == [ok |-> TRUE, field |-> field]
NotConverted(field) == [ok |-> FALSE, field |-> field]

\* convertFromString: a string default or secret into a scalar field.
convertFromString(field, strValue) ==
    CASE field.k = "bool" ->
            IF ParseBool(strValue).err = ""
            THEN Converted(SetBool(field, ParseBool(strValue).val))
            ELSE NotConverted(field)
      [] field.k \in IntKinds ->
            IF ParseInt(strValue).err = ""
            THEN IF OverflowInt(field.k, ParseInt(strValue).val)
                 THEN NotConverted(field)
                 ELSE Converted(SetNum(field, ParseInt(strValue).val))
            ELSE NotConverted(field)
      [] field.k \in UintKinds ->
            IF ParseUint(strValue).err = ""
            THEN IF OverflowUint(field.k, ParseUint(strValue).val)
                 THEN NotConverted(field)
                 ELSE Converted(SetNum(field, ParseUint(strValue).val))
            ELSE NotConverted(field)
      [] field.k \in FloatKinds ->
            IF ParseFloat(strValue).err = ""
            THEN IF OverflowFloat(field.k, ParseFloat(strValue).val)
                 THEN NotConverted(field)
                 ELSE Converted(SetNum(field, ParseFloat(strValue).val))
            ELSE NotConverted(field)
      [] OTHER -> NotConverted(field)

\* tryConversion: a numeric value of another kind into a numeric field.
tryConversion(field, val) ==
    CASE val.k \in IntKinds ->
            LET i == val.n
            IN CASE field.k \in FloatKinds ->
                       IF ~OverflowFloat(field.k, ToFloat(i))
                       THEN Converted(SetNum(field, ToFloat(i))) ELSE NotConverted(field)
                 [] field.k \in UintKinds ->
                       IF i >= 0 /\ ~OverflowUint(field.k, ToUint64(i))
                       THEN Converted(SetNum(field, ToUint64(i))) ELSE NotConverted(field)
                 [] OTHER -> NotConverted(field)
      [] val.k \in UintKinds ->
            LET u == val.n
            IN CASE field.k \in FloatKinds ->
                       IF ~OverflowFloat(field.k, ToFloat(u))
                       THEN Converted(SetNum(field, ToFloat(u))) ELSE NotConverted(field)
                 [] field.k \in IntKinds ->
                       IF ~OverflowInt(field.k, ToInt64(u))
                       THEN Converted(SetNum(field, ToInt64(u))) ELSE NotConverted(field)
                 [] OTHER -> NotConverted(field)
      [] val.k \in FloatKinds ->
            LET f == val.n
            IN CASE field.k \in IntKinds ->
                       IF ~OverflowInt(field.k, Int64OfFloat(f))
                       THEN Converted(SetNum(field, Int64OfFloat(f)))
                       ELSE NotConverted(field)
                 [] field.k \in UintKinds ->
                       IF f >= 0 /\ ~OverflowUint(field.k, Uint64OfFloat(f))
                       THEN Converted(SetNum(field, Uint64OfFloat(f)))
                       ELSE NotConverted(field)
                 [] OTHER -> NotConverted(field)
      [] OTHER -> NotConverted(field)

\* The outcome of setFieldValue: the field as left, the error returned, and
\* whether the call panicked instead of returning (reflect's Value.Set panics
\* when the value's type is not assignable to the field's type).
SetOutcome(field, err, panic) == [field |-> field, err |-> err, panic |-> panic]

\* setFieldValue: a default or secret value into a field.
setFieldValue(field, value) ==
    IF ~field.canSet THEN SetOutcome(field, ErrFieldNotSettable, FALSE)
    ELSE IF field.k # value.k
         THEN LET c == IF value.k = "string"
                       THEN convertFromString(field, value.s)
                       ELSE tryConversion(field, value)
              IN IF ~c.ok THEN SetOutcome(field, ErrIncompatibleType, FALSE)
                 ELSE SetOutcome(c.field, NoErr, FALSE)
         ELSE IF value.t # field.t
              THEN SetOutcome(field, NoErr, TRUE)
              ELSE SetOutcome([field EXCEPT !.b = value.b, !.n = value.n,
                                            !.s = value.s, !.l = value.l], NoErr, FALSE)

\* The elements of a comma-separated value: trimmed, empty ones dropped.
RECURSIVE TrimmedNonEmpty(_)
TrimmedNonEmpty(values) ==
    IF values = << >> THEN << >>
    ELSE (IF TrimSpace(Head(values)) # ""
          THEN <<StrVal("string", TrimSpace(Head(values)))>> ELSE << >>)
         \o TrimmedNonEmpty(Tail(values))

Applied(field)        == [field |-> field, err |-> NoErr]
ApplyFailed(field, e) == [field |-> field, err |-> e]

\* applyValueToField: an environment variable's text into a field.  None of the
\* record types modelled declares a time.Duration field, so the duration
\* branch of the integer case is never entered.
applyValueToField(field, value) ==
    CASE field.k = "string" -> Applied(SetString(field, value))
      [] field.k \in IntKinds ->
            LET r == ParseInt(value)
            IN IF r.err # "" THEN ApplyFailed(field, <<"strconv.ParseInt", r.err>>)
               ELSE IF OverflowInt(field.k, r.val)
                    THEN ApplyFailed(field, <<"overflows field", field.t>>)
                    ELSE Applied(SetNum(field, r.val))
      [] field.k \in UintKinds ->
            LET r == ParseUint(value)
            IN IF r.err # "" THEN ApplyFailed(field, <<"strconv.ParseUint", r.err>>)
               ELSE IF OverflowUint(field.k, r.val)
                    THEN ApplyFailed(field, <<"overflows field", field.t>>)
                    ELSE Applied(SetNum(field, r.val))
      [] field.k \in FloatKinds ->
            LET r == ParseFloat(value)
            IN IF r.err # "" THEN ApplyFailed(field, <<"strconv.ParseFloat", r.err>>)
               ELSE IF OverflowFloat(field.k, r.val)
                    THEN ApplyFailed(field, <<"overflows field", field.t>>)
                    ELSE Applied(SetNum(field, r.val))
      [] field.k = "bool" ->
            LET r == ParseBool(value)
            IN IF r.err # "" THEN ApplyFailed(field, <<"strconv.ParseBool", r.err>>)
               ELSE Applied(SetBool(field, r.val))
      [] field.k = "slice" ->
            IF ElemType(field.t).k = "string"
            THEN Applied(SetList(field, TrimmedNonEmpty(Split(value, ","))))
            ELSE [field |-> field, err |-> NoErr]
      [] OTHER -> ApplyFailed(field, <<"unsupported field type", field.t>>)

-----------------------------------------------------------------------------
(* the path resolver *)

\* cfg is a non-nil pointer to a struct: the check Load, the providers and
\* applySecret make on their argument.
IsPtrToStruct(c) == ~(c.k # "ptr" \/ Elem(c).k # "struct")

\* Whether the field at a location can be set: every name on the way exported.
RECURSIVE ExportedAt(_, _)
ExportedAt(t, loc) ==
    IF loc = << >> THEN TRUE
    ELSE LET d == StructDef(t)[Head(loc)]
         IN d.exported /\ ExportedAt(IF d.k = "ptr" THEN ElemType(d.t).t ELSE d.t, Tail(loc))

Found(loc)   == [err |-> NoErr, loc |-> loc]
NotFound(e)  == [err |-> e, loc |-> << >>]

\* The walk of getFieldByPath over the parts of the path, from the struct
\* value reached so far.
RECURSIVE WalkByPath(_, _, _)
WalkByPath(value, parts, loc) ==
    LET i == FieldByName(value.t, Head(parts))
    IN IF i = 0 THEN NotFound(ErrFieldNotFound)
       ELSE IF Len(parts) = 1 THEN Found(Append(loc, i))
       ELSE LET field == value.l[i]
            IN IF field.k = "ptr" /\ IsNil(field) THEN NotFound(ErrFieldNotFound)
               ELSE LET next == IF field.k = "ptr" THEN Elem(field) ELSE field
                    IN IF next.k # "struct" THEN NotFound(ErrFieldNotFound)
                       ELSE WalkByPath(next, Tail(parts), Append(loc, i))

\* getFieldByPath: the location of the field a dotted path names.
getFieldByPath(structValue, path) == WalkByPath(structValue, Split(path, "."), << >>)

\* The walk of getFieldValue, which differs in the errors it reports.
RECURSIVE WalkValue(_, _, _, _)
WalkValue(value, parts, loc, path) ==
    LET i == FieldByName(value.t, Head(parts))
    IN IF i = 0 THEN NotFound(<<"field not found", Head(parts), path>>)
       ELSE IF Len(parts) = 1 THEN Found(Append(loc, i))
       ELSE LET field == value.l[i]
            IN IF field.k = "ptr" /\ IsNil(field)
               THEN NotFound(<<"field is nil", Head(parts), path>>)
               ELSE LET next == IF field.k = "ptr" THEN Elem(field) ELSE field
                    IN IF next.k # "struct"
                       THEN NotFound(<<"field is not a struct", Head(parts), path>>)
                       ELSE WalkValue(next, Tail(parts), Append(loc, i), path)

\* getFieldValue: the same resolution from the record argument itself.
getFieldValue(obj, path) ==
    LET value == IF obj.k = "ptr" THEN Elem(obj) ELSE obj
    IN IF value.k # "struct" THEN NotFound(<<"expected struct", value.k>>)
       ELSE WalkValue(value, Split(path, "."), << >>, path)

\* The struct a record argument points to (or is).
StructOf(c) == IF c.k = "ptr" THEN Elem(c) ELSE c

\* The field at a location of the record argument, as a reflect.Value.
FieldAt(c, loc) ==
    FieldValue(GetAt(StructOf(c), loc), c.k = "ptr" /\ ExportedAt(StructOf(c).t, loc))

-----------------------------------------------------------------------------
(* the providers *)

\* What a provider's Load leaves: the record, the error returned, and whether
\* it panicked instead of returning.
Outcome(c, err, panic) == [cfg |-> c, err |-> err, panic |-> panic]

\* isZeroValue
isZeroValue(v) ==
    CASE v.k = "bool"                 -> ~v.b
      [] v.k \in IntKinds             -> v.n = 0
      [] v.k \in UintKinds            -> v.n = 0
      [] v.k \in FloatKinds           -> v.n = 0
      [] v.k = "string"               -> v.s = ""
      [] v.k \in {"ptr", "interface"} -> IsNil(v)
      [] v.k \in {"slice", "map", "array"} -> Len(v.l) = 0
      [] OTHER                        -> FALSE

\* The record once setFieldValue has left outcome s on the field at loc; the
\* error of setFieldValue is dropped when keepErr is false.
FieldSet(c, loc, s, keepErr) ==
    Outcome(PutAt(c, loc, Stored(s.field)), IF keepErr THEN s.err ELSE NoErr, s.panic)

\* One iteration of DefaultProvider.Load's loop over DefaultValues, r being
\* what getFieldByPath returned.
ApplyDefaultAt(c, r, defaultValue) ==
    IF r.err # NoErr THEN Outcome(c, NoErr, FALSE)
    ELSE IF isZeroValue(FieldAt(c, r.loc))
         THEN FieldSet(c, r.loc, setFieldValue(FieldAt(c, r.loc), defaultValue), FALSE)
         ELSE Outcome(c, NoErr, FALSE)

ApplyDefault(c, fieldPath, defaultValue) ==
    ApplyDefaultAt(c, getFieldByPath(Elem(c), fieldPath), defaultValue)

RECURSIVE ApplyDefaults(_, _)

\* The loop goes on after an iteration that left outcome o.
NextDefault(o, entries) == IF o.panic THEN o ELSE ApplyDefaults(o.cfg, entries)

ApplyDefaults(c, entries) ==
    IF entries = << >> THEN Outcome(c, NoErr, FALSE)
    ELSE NextDefault(ApplyDefault(c, Head(entries)[1], Head(entries)[2]), Tail(entries))

\* DefaultProvider.Load; entries are the pairs of DefaultValues in the order
\* this run's map iteration yields them.
DefaultProviderLoad(entries, c) ==
    IF Len(entries) = 0 THEN Outcome(c, NoErr, FALSE)
    ELSE IF ~IsPtrToStruct(c) THEN Outcome(c, ErrInvalidConfig, FALSE)
    ELSE ApplyDefaults(c, entries)

\* os.Getenv
Getenv(name) == IF name \in DOMAIN environ THEN environ[name] ELSE ""

\* A name built from the tag as written.
EnvVarNameVerbatim(prefix, envTag) == prefix \o "_" \o envTag

\* The variable name processStruct builds for a field.
EnvVarName(prefix, envTag) ==
    IF prefix # "" THEN prefix \o "_" \o ToUpper(envTag) ELSE ToUpper(envTag)

StructOutcome(v, err) == [v |-> v, err |-> err]

RECURSIVE ProcessFields(_, _, _, _)

\* The pointer field once the struct it leads to was processed and left as e:
\* a nil pointer was set to the struct reflect.New made, a populated pointer
\* is the pointer it was and its struct was processed in place.  The n of a
\* pointer tells the allocations apart: 0 is one made by reflect.New.
Pointing(field, e) ==
    IF IsNil(field) THEN PtrTo(field.t, e) ELSE [field EXCEPT !.l = <<e>>]

\* The loop body once the nested struct of field i was processed with outcome
\* r: its error is returned, else the loop goes on.
AfterNested(v, i, prefix, parent, isPtr, r) ==
    IF r.err # NoErr
    THEN StructOutcome([v EXCEPT !.l[i] = IF isPtr THEN Pointing(v.l[i], r.v) ELSE r.v], r.err)
    ELSE ProcessFields([v EXCEPT !.l[i] = IF isPtr THEN Pointing(v.l[i], r.v) ELSE r.v],
                       i + 1, prefix, parent)

\* A loop that goes on to the next field whatever applyValueToField returned.
AfterApplyIgnoringError(v, i, prefix, parent, envVarName, a) ==
    ProcessFields([v EXCEPT !.l[i] = Stored(a.field)], i + 1, prefix, parent)

\* The loop body once applyValueToField left outcome a on field i.
AfterApply(v, i, prefix, parent, envVarName, a) ==
    IF a.err # NoErr
    THEN StructOutcome([v EXCEPT !.l[i] = Stored(a.field)],
                       <<"failed to apply environment variable", envVarName>> \o a.err)
    ELSE ProcessFields([v EXCEPT !.l[i] = Stored(a.field)], i + 1, prefix, parent)

\* A loop body that applies the variable only to a field still at its zero.
ApplyVariableIfZero(v, i, prefix, parent, envVarName) ==
    IF Getenv(envVarName) = "" \/ ~isZeroValue(v.l[i])
    THEN ProcessFields(v, i + 1, prefix, parent)
    ELSE AfterApply(v, i, prefix, parent, envVarName,
                    applyValueToField(FieldValue(v.l[i], TRUE), Getenv(envVarName)))

\* A loop body that applies every variable that is set, an empty one too.
ApplyVariableWhenSet(v, i, prefix, parent, envVarName) ==
    IF envVarName \notin DOMAIN environ THEN ProcessFields(v, i + 1, prefix, parent)
    ELSE AfterApply(v, i, prefix, parent, envVarName,
                    applyValueToField(FieldValue(v.l[i], TRUE), environ[envVarName]))

\* The loop body for a scalar field i whose variable is envVarName.
ApplyVariable(v, i, prefix, parent, envVarName) ==
    IF Getenv(envVarName) = "" THEN ProcessFields(v, i + 1, prefix, parent)
    ELSE AfterApply(v, i, prefix, parent, envVarName,
                    applyValueToField(FieldValue(v.l[i], TRUE), Getenv(envVarName)))

\* A loop body that processes the struct behind a populated pointer and
\* passes by a nil one.
ProcessFieldSkippingNil(v, i, prefix, parent, d, field, path) ==
    IF ~d.exported THEN ProcessFields(v, i + 1, prefix, parent)
    ELSE IF field.k = "struct"
    THEN AfterNested(v, i, prefix, parent, FALSE, ProcessFields(field, 1, prefix, path))
    ELSE IF field.k = "ptr"
    THEN IF ElemType(field.t).k = "struct" /\ ~IsNil(field)
         THEN AfterNested(v, i, prefix, parent, TRUE,
                          ProcessFields(Elem(field), 1, prefix, path))
         ELSE ProcessFields(v, i + 1, prefix, parent)
    ELSE ApplyVariable(v, i, prefix, parent,
                       EnvVarName(prefix, IF d.env # "" THEN d.env ELSE d.name))

\* The loop body for field i, declared as d and holding field, with path the
\* underscore-joined names down to it.
ProcessField(v, i, prefix, parent, d, field, path) ==
    IF ~d.exported THEN ProcessFields(v, i + 1, prefix, parent)
    ELSE IF field.k = "struct"
    THEN AfterNested(v, i, prefix, parent, FALSE, ProcessFields(field, 1, prefix, path))
    ELSE IF field.k = "ptr"
    THEN IF ElemType(field.t).k = "struct"
         THEN AfterNested(v, i, prefix, parent, TRUE,
                          ProcessFields(IF IsNil(field)
                                        THEN Zero("struct", ElemType(field.t).t)
                                        ELSE Elem(field),
                                        1, prefix, path))
         ELSE ProcessFields(v, i + 1, prefix, parent)
    ELSE ApplyVariable(v, i, prefix, parent,
                       EnvVarName(prefix, IF d.env # "" THEN d.env ELSE d.name))

\* processStruct: the loop over the fields, from field i.
ProcessFields(v, i, prefix, parent) ==
    IF i > Len(StructDef(v.t)) THEN StructOutcome(v, NoErr)
    ELSE ProcessField(v, i, prefix, parent, StructDef(v.t)[i], v.l[i],
                      IF parent # "" THEN parent \o "_" \o StructDef(v.t)[i].name
                      ELSE StructDef(v.t)[i].name)

processStruct(v, prefix, parent) == ProcessFields(v, 1, prefix, parent)

\* applyEnvVariables
EnvApplied(c, r) == Outcome(PtrTo(c.t, r.v), r.err, FALSE)

applyEnvVariables(c, prefix) ==
    IF ~IsPtrToStruct(c) THEN Outcome(c, ErrInvalidConfig, FALSE)
    ELSE EnvApplied(c, processStruct(Elem(c), prefix, ""))

\* EnvProvider.Load
EnvProviderLoad(prefix, c) == applyEnvVariables(c, prefix)

\* The one directory of the file system that holds secrets.
SecretsPath == "/run/secrets"

\* dirExists
dirExists(path) == path = SecretsPath /\ secretsDir.exists

\* secretKeyToFieldPath: "DB_PASS" -> "Db.Pass"
secretKeyToFieldPath(key) ==
    LET parts == Split(key, "_")
    IN Join([i \in 1..Len(parts) |-> Title(ToLower(parts[i]))], ".")

\* applySecret once getFieldValue returned r.
applySecretAt(c, r, secretValue) ==
    IF r.err # NoErr THEN Outcome(c, r.err, FALSE)
    ELSE FieldSet(c, r.loc, setFieldValue(FieldAt(c, r.loc), StrVal("string", secretValue)), TRUE)

\* applySecret
applySecret(c, secretKey, secretValue) ==
    IF ~IsPtrToStruct(c) THEN Outcome(c, ErrInvalidConfig, FALSE)
    ELSE applySecretAt(c, getFieldValue(c, secretKeyToFieldPath(secretKey)), secretValue)

RECURSIVE ApplySecrets(_, _)

\* A loop that ends at the first secret applySecret could not apply.
NextSecretStoppingOnError(o, entries) ==
    IF o.panic \/ o.err # NoErr THEN o ELSE ApplySecrets(o.cfg, entries)

\* The loop goes on after an entry that left outcome o.
NextSecret(o, entries) == IF o.panic THEN o ELSE ApplySecrets(o.cfg, entries)

\* The loop of SecretsProvider.Load over the directory entries.
ApplySecrets(c, entries) ==
    IF entries = << >> THEN Outcome(c, NoErr, FALSE)
    ELSE IF Head(entries).isDir THEN ApplySecrets(c, Tail(entries))
    ELSE IF ~Head(entries).readable
    THEN Outcome(c, <<"failed to read secret file", Head(entries).name>>, FALSE)
    ELSE NextSecret(applySecret(c, Head(entries).name, Head(entries).content), Tail(entries))

\* SecretsProvider.Load
SecretsProviderLoad(mountPath, c) ==
    IF mountPath = "" \/ ~dirExists(mountPath) THEN Outcome(c, NoErr, FALSE)
    ELSE IF ~secretsDir.listable
         THEN Outcome(c, <<"failed to read secrets directory">>, FALSE)
         ELSE ApplySecrets(c, secretsDir.entries)

\* The load functions callers hand to NewDynamicProvider in this model: each
\* asserts its argument to be a *Config and assigns fields directly.
LoadFunc(fn, c) ==
    IF ~(c.k = "ptr" /\ c.t = "*Config" /\ ~IsNil(c)) THEN Outcome(c, NoErr, TRUE)
    ELSE CASE fn = "setPort" ->
                 Outcome(PutAt(c, <<1, 2>>, NumVal("int", "int", 7070)), NoErr, FALSE)
           [] fn = "setLimitThenFail" ->
                 Outcome(PutAt(c, <<3>>, NumVal("uint8", "uint8", 9)), <<"dynamic source failed">>, FALSE)
           [] OTHER -> Outcome(c, <<"dynamic source unavailable">>, FALSE)

\* DynamicProvider.Load
DynamicProviderLoad(fn, c) == LoadFunc(fn, c)

\* A registered provider: its kind and the configuration it was built with
\* (DefaultValues; Prefix, MountPath or the load function).
Provider(kind, values, p) == [kind |-> kind, values |-> values, p |-> p]

\* Provider.Load, dispatched on the provider's dynamic type.  iter is the
\* order this run's map iterations take: the order of insertion ("fwd") or
\* its reverse ("rev"), two of the orders Go's map iteration can produce.
InIterOrder(entries, iter) ==
    IF iter = "rev" THEN [i \in 1..Len(entries) |-> entries[Len(entries) + 1 - i]]
    ELSE entries

ProviderLoad(p, c, iter) ==
    CASE p.kind = "default" -> DefaultProviderLoad(InIterOrder(p.values, iter), c)
      [] p.kind = "env"     -> EnvProviderLoad(p.p, c)
      [] p.kind = "secrets" -> SecretsProviderLoad(p.p, c)
      [] OTHER              -> DynamicProviderLoad(p.p, c)

-----------------------------------------------------------------------------
(* the validator *)

\* A required rule that decides on strings and numbers only.
RequiredRuleScalarsOnly(value) ==
    IF value.k \in {"string"} \cup IntKinds \cup UintKinds \cup FloatKinds
          /\ value.s = "" /\ value.n = 0
    THEN <<"value is required">> ELSE NoErr

\* RequiredRule
RequiredRule(value) ==
    CASE value.k = "string" ->
            IF value.s = "" THEN <<"value is required">> ELSE NoErr
      [] value.k \in IntKinds ->
            IF value.n = 0 THEN <<"value is required">> ELSE NoErr
      [] value.k \in UintKinds ->
            IF value.n = 0 THEN <<"value is required">> ELSE NoErr
      [] value.k \in FloatKinds ->
            IF value.n = 0 THEN <<"value is required">> ELSE NoErr
      [] value.k \in {"slice", "map", "array"} ->
            IF Len(value.l) = 0 THEN <<"value is required">> ELSE NoErr
      [] value.k \in {"ptr", "interface"} ->
            IF IsNil(value) THEN <<"value is required">> ELSE NoErr
      [] OTHER -> NoErr

\* Comparisons that exclude the bounds.
RangeCheckExclusive(min, max, val) ==
    IF val <= min THEN <<"value is less than minimum">>
    ELSE IF val >= max THEN <<"value is greater than maximum">>
    ELSE NoErr

\* The comparisons RangeRule ends with, on the int64 val.
RangeCheck(min, max, val) ==
    IF val < min THEN <<"value is less than minimum">>
    ELSE IF val > max THEN <<"value is greater than maximum">>
    ELSE NoErr

\* RangeRule(min, max)
RangeRule(min, max, value) ==
    CASE value.k \in IntKinds -> RangeCheck(min, max, value.n)
      [] value.k \in UintKinds ->
            IF value.n > ToUint64(max) THEN <<"value is greater than maximum">>
            ELSE RangeCheck(min, max, ToInt64(value.n))
      [] OTHER -> <<"value must be numeric">>

\* MinRule(min)
MinRule(min, value) ==
    CASE value.k \in IntKinds ->
            IF value.n < min THEN <<"value is less than minimum">> ELSE NoErr
      [] value.k \in UintKinds ->
            IF value.n < ToUint64(min) THEN <<"value is less than minimum">> ELSE NoErr
      [] value.k \in FloatKinds ->
            IF value.n < ToFloat(min) THEN <<"value is less than minimum">> ELSE NoErr
      [] value.k \in {"slice", "map", "array"} ->
            IF Len(value.l) < min THEN <<"length is less than minimum">> ELSE NoErr
      [] OTHER -> <<"value type does not support min validation">>

\* MaxRule(max)
MaxRule(max, value) ==
    CASE value.k \in IntKinds ->
            IF value.n > max THEN <<"value is greater than maximum">> ELSE NoErr
      [] value.k \in UintKinds ->
            IF value.n > ToUint64(max) THEN <<"value is greater than maximum">> ELSE NoErr
      [] value.k \in FloatKinds ->
            IF value.n > ToFloat(max) THEN <<"value is greater than maximum">> ELSE NoErr
      [] value.k \in {"slice", "map", "array"} ->
            IF Len(value.l) > max THEN <<"length is greater than maximum">> ELSE NoErr
      [] OTHER -> <<"value type does not support max validation">>

\* A rule function as AddRule receives it: [name, a, b] stands for
\* RequiredRule(), RangeRule(a, b), MinRule(a) or MaxRule(a).
Rule(name, a, b) == [name |-> name, a |-> a, b |-> b]

CallRule(rule, value) ==
    CASE rule.name = "required" -> RequiredRule(value)
      [] rule.name = "range"    -> RangeRule(rule.a, rule.b, value)
      [] rule.name = "min"      -> MinRule(rule.a, value)
      [] OTHER                  -> MaxRule(rule.a, value)

FailedFor(fieldPath, err) == <<"validation failed for field", fieldPath>> \o err

\* What validateFieldByTag returns when a rule returned err.
Wrapped(fieldPath, err) == IF err # NoErr THEN FailedFor(fieldPath, err) ELSE NoErr

\* The range clause once both bounds are parsed.
RangeClause(field, fieldPath, min, max) ==
    IF min.err # "" THEN <<"invalid range minimum", fieldPath, min.err>>
    ELSE IF max.err # "" THEN <<"invalid range maximum", fieldPath, max.err>>
    ELSE Wrapped(fieldPath, RangeRule(min.val, max.val, field))

\* The range clause once its parameter is split at "-".
RangeValues(field, fieldPath, rangeValues) ==
    IF Len(rangeValues) # 2
    THEN <<"invalid range format: expected min-max", fieldPath>>
    ELSE RangeClause(field, fieldPath, ParseInt(rangeValues[1]), ParseInt(rangeValues[2]))

MinClause(field, fieldPath, min) ==
    IF min.err # "" THEN <<"invalid min value", fieldPath, min.err>>
    ELSE Wrapped(fieldPath, MinRule(min.val, field))

MaxClause(field, fieldPath, max) ==
    IF max.err # "" THEN <<"invalid max value", fieldPath, max.err>>
    ELSE Wrapped(fieldPath, MaxRule(max.val, field))

\* The switch of validateFieldByTag on the rule name parts[1].
ClauseSwitch(field, fieldPath, parts) ==
    CASE parts[1] = "required" -> Wrapped(fieldPath, RequiredRule(field))
      [] parts[1] = "range" ->
            IF Len(parts) < 2 THEN <<"invalid range rule: missing range values", fieldPath>>
            ELSE RangeValues(field, fieldPath, Split(parts[2], "-"))
      [] parts[1] = "min" ->
            IF Len(parts) < 2 THEN <<"invalid min rule: missing value", fieldPath>>
            ELSE MinClause(field, fieldPath, ParseInt(parts[2]))
      [] parts[1] = "max" ->
            IF Len(parts) < 2 THEN <<"invalid max rule: missing value", fieldPath>>
            ELSE MaxClause(field, fieldPath, ParseInt(parts[2]))
      [] OTHER -> NoErr

\* One clause of a validate tag, as the loop body of validateFieldByTag treats it.
ValidateClause(field, fieldPath, rule) == ClauseSwitch(field, fieldPath, SplitN2(rule, ":"))

RECURSIVE ValidateClauses(_, _, _)

\* The first error ends the loop.
NextClause(field, fieldPath, err, rules) ==
    IF err # NoErr THEN err ELSE ValidateClauses(field, fieldPath, rules)

TrimmedClause(field, fieldPath, rule, rules) ==
    IF rule = "" THEN ValidateClauses(field, fieldPath, rules)
    ELSE NextClause(field, fieldPath, ValidateClause(field, fieldPath, rule), rules)

ValidateClauses(field, fieldPath, rules) ==
    IF rules = << >> THEN NoErr
    ELSE TrimmedClause(field, fieldPath, TrimSpace(Head(rules)), Tail(rules))

\* validateFieldByTag
validateFieldByTag(field, fieldPath, tag) ==
    ValidateClauses(field, fieldPath, Split(tag, ","))

\* validateStructFields: the loop body for field i and the rest of the loop.
\* canSet tells whether the struct was reached through a pointer.
RECURSIVE ValidateFields(_, _, _, _)

\* The first error ends the loop.
NextField(value, i, prefix, canSet, err) ==
    IF err # NoErr THEN err ELSE ValidateFields(value, i + 1, prefix, canSet)

\* A recursion that descends into struct fields and not through pointers.
ValidateNestedSkippingPointers(value, i, prefix, canSet, field, fieldPath, tagErr) ==
    IF tagErr # NoErr THEN tagErr
    ELSE NextField(value, i, prefix, canSet,
                   IF field.k = "struct" THEN ValidateFields(field, 1, fieldPath, canSet)
                   ELSE NoErr)

\* The recursion into a nested struct, after the field's own tag passed.
ValidateNested(value, i, prefix, canSet, field, fieldPath, tagErr) ==
    IF tagErr # NoErr THEN tagErr
    ELSE NextField(value, i, prefix, canSet,
                   CASE field.k = "struct" ->
                           ValidateFields(field, 1, fieldPath, canSet)
                     [] field.k = "ptr" /\ ~IsNil(field) /\ Elem(field).k = "struct" ->
                           ValidateFields(Elem(field), 1, fieldPath, canSet)
                     [] OTHER -> NoErr)

\* The loop body for field i, declared as d, at path fieldPath.
ValidateField(value, i, prefix, canSet, d, fieldPath) ==
    IF ~(canSet /\ d.exported) THEN ValidateFields(value, i + 1, prefix, canSet)
    ELSE ValidateNested(value, i, prefix, canSet, value.l[i], fieldPath,
                        IF d.validate # ""
                        THEN validateFieldByTag(value.l[i], fieldPath, d.validate)
                        ELSE NoErr)

ValidateFields(value, i, prefix, canSet) ==
    IF i > Len(StructDef(value.t)) THEN NoErr
    ELSE ValidateField(value, i, prefix, canSet, StructDef(value.t)[i],
                       IF prefix # "" THEN prefix \o "." \o StructDef(value.t)[i].name
                       ELSE StructDef(value.t)[i].name)

validateStructFields(value, prefix, canSet) == ValidateFields(value, 1, prefix, canSet)

\* validateTags
validateTags(c) ==
    LET value == IF c.k = "ptr" THEN Elem(c) ELSE c
    IN IF value.k # "struct" THEN NoErr
       ELSE validateStructFields(value, "", c.k = "ptr")

\* The loop of Validate over the explicit rules, in this run's iteration order.
RECURSIVE ValidateRules(_, _)

\* The first failing rule ends the loop.
NextRule(c, fieldPath, err, rules) ==
    IF err # NoErr THEN FailedFor(fieldPath, err) ELSE ValidateRules(c, rules)

\* The loop body once getFieldValue returned r.
ValidateRuleAt(c, fieldPath, rule, r, rules) ==
    IF r.err # NoErr THEN <<"validation error">> \o r.err
    ELSE NextRule(c, fieldPath, CallRule(rule, GetAt(StructOf(c), r.loc)), rules)

ValidateRules(c, rules) ==
    IF rules = << >> THEN NoErr
    ELSE ValidateRuleAt(c, Head(rules)[1], Head(rules)[2],
                        getFieldValue(c, Head(rules)[1]), Tail(rules))

\* A Validate that validates the tags whatever UseTagValidation says.
AfterRulesAlwaysTags(v, c, err) ==
    IF err # NoErr THEN err ELSE validateTags(c)

\* Validate after the explicit rules returned err: the tags are validated
\* when the rules passed and tag validation is enabled.
AfterRules(v, c, err) ==
    IF err # NoErr THEN err
    ELSE IF v.useTags THEN validateTags(c) ELSE NoErr

\* DefaultValidator.Validate
DefaultValidatorValidate(v, c, iter) ==
    IF c.k = "invalid" THEN <<"configuration is nil">>
    ELSE AfterRules(v, c, ValidateRules(c, InIterOrder(v.rules, iter)))

\* Validator.Validate, dispatched on the validator's dynamic type: the
\* DefaultValidator, or a caller's validator that returns a fixed verdict.
ValidatorValidate(v, c, iter) ==
    IF v.kind = "default" THEN DefaultValidatorValidate(v, c, iter) ELSE v.verdict

-----------------------------------------------------------------------------
(* the pipeline *)

\* One invocation Load made: of the provider at position idx, or of the
\* validator (idx 0), with the record before and after and the error returned.
Call(who, idx, before, after, err) ==
    [who |-> who, idx |-> idx, before |-> before, after |-> after, err |-> err]

LoadResult(c, err, panic, calls) == [cfg |-> c, err |-> err, panic |-> panic, calls |-> calls]

\* A Load that reports success whatever the validator returned.
ValidatedErrorDropped(c, calls, err) ==
    LoadResult(c, NoErr, FALSE, Append(calls, Call("validator", 0, c, c, err)))

\* Load returns what the validator returned (err).
Validated(c, calls, err) ==
    LoadResult(c, err, FALSE, Append(calls, Call("validator", 0, c, c, err)))

\* The validation step of Configurator.Load.
ValidateStep(v, c, calls, iter) ==
    IF v.kind # "nil"
    THEN Validated(c, calls, ValidatorValidate(v, c, iter))
    ELSE LoadResult(c, NoErr, FALSE, calls)

RECURSIVE LoadFrom(_, _, _, _, _, _)

\* A loop that goes on to the next provider whatever provider i returned.
AfterProviderIgnoringError(ps, v, i, c, calls, iter, o) ==
    LoadFrom(ps, v, i + 1, o.cfg, Append(calls, Call("provider", i, c, o.cfg, o.err)), iter)

\* The body of the loop once provider i has left outcome o: return its error,
\* or go on to the next provider.
AfterProvider(ps, v, i, c, calls, iter, o) ==
    IF o.panic
    THEN LoadResult(o.cfg, NoErr, TRUE, Append(calls, Call("provider", i, c, o.cfg, o.err)))
    ELSE IF o.err # NoErr
    THEN LoadResult(o.cfg, o.err, FALSE, Append(calls, Call("provider", i, c, o.cfg, o.err)))
    ELSE LoadFrom(ps, v, i + 1, o.cfg, Append(calls, Call("provider", i, c, o.cfg, o.err)), iter)

\* The loop of Configurator.Load over the providers, from position i.
LoadFrom(ps, v, i, c, calls, iter) ==
    IF i > Len(ps) THEN ValidateStep(v, c, calls, iter)
    ELSE AfterProvider(ps, v, i, c, calls, iter, ProviderLoad(ps[i], c, iter))

\* A Load that accepts any pointer as its record.
LoadCheckingPointerOnly(ps, v, c, iter) ==
    IF c.k # "ptr" THEN LoadResult(c, ErrInvalidConfig, FALSE, << >>)
    ELSE LoadFrom(ps, v, 1, c, << >>, iter)

\* Configurator.Load
ConfiguratorLoad(ps, v, c, iter) ==
    IF ~IsPtrToStruct(c) THEN LoadResult(c, ErrInvalidConfig, FALSE, << >>)
    ELSE LoadFrom(ps, v, 1, c, << >>, iter)

-----------------------------------------------------------------------------
(* the pipeline as a state machine: a caller assembles a Configurator,         *)
(* calls Load on a record, and may go on assembling and loading                *)

\* The most providers a caller registers.
MaxProviders == 2

None == [called |-> FALSE]

\* A validator: NewDefaultValidator's fields, or the verdict of a caller's own.
Validator(kind, rules, useTags, verdict) ==
    [kind |-> kind, rules |-> rules, useTags |-> useTags, verdict |-> verdict]

NoValidator == Validator("nil", << >>, FALSE, NoErr)

\* A *Config whose struct holds the given leaf values.
ConfigOf(host, port, pass, size, limit, tags) ==
    PtrTo("*Config",
          ListVal("struct", "Config",
              << ListVal("struct", "Server",
                     << StrVal("string", host), NumVal("int", "int", port) >>),
                 ListVal("struct", "Db",
                     << StrVal("string", pass),
                        ListVal("struct", "Pool", << NumVal("int16", "int16", size) >>) >>),
                 NumVal("uint8", "uint8", limit),
                 StringSlice(tags) >>))

ZeroConfig == PtrTo("*Config", Zero("struct", "Config"))

\* The locations of Config's leaf fields.
LocHost  == <<1, 1>>
LocPort  == <<1, 2>>
LocPass  == <<2, 1>>
LocSize  == <<2, 2, 1>>
LocLimit == <<3>>
LocTags  == <<4>>
LeafLocs == {LocHost, LocPort, LocPass, LocSize, LocLimit, LocTags}

\* What callers hand to Load: nil, a nil *Config, a Config by value, a pointer
\* to a non-struct, a fresh record, and records that already hold values.
RecordArgs ==
    { Invalid,
      NilPtr("*Config"),
      Zero("struct", "Config"),
      PtrTo("*int", NumVal("int", "int", 0)),
      ZeroConfig,
      ConfigOf("h0", 5, "", 0, 7, << >>),
      ConfigOf("h0", 5, "p0", 3, 7, <<"a">>) }

\* The environments the process may start with.
Environments ==
    { [n \in {"APP_SERVER_HOST", "APP_SERVER_PORT", "APP_DB_PASS"} |->
          CASE n = "APP_SERVER_HOST" -> "testhost"
            [] n = "APP_SERVER_PORT" -> "9090"
            [] OTHER -> "pgpass"],
      [n \in {"APP_SERVER_HOST", "APP_SERVER_PORT"} |->
          IF n = "APP_SERVER_HOST" THEN "testhost" ELSE "not-a-number"] }

FileEntry(name, content) ==
    [name |-> name, isDir |-> FALSE, readable |-> TRUE, content |-> content]

\* The states of the secrets directory: missing, or holding secrets (os.ReadDir
\* lists the entries sorted by file name).
Directories ==
    { [exists |-> FALSE, listable |-> FALSE, entries |-> << >>],
      [exists |-> TRUE, listable |-> TRUE,
       entries |-> << FileEntry("DB_PASS", "s3cret"),
                      FileEntry("SERVER_PORT", "8443"),
                      FileEntry("UNKNOWN_KEY", "x") >>] }

\* The providers callers register.
ProviderChoices ==
    { Provider("default", << <<"Server.Port", NumVal("int", "int", 8080)>>,
                             <<"Server.Host", StrVal("string", "localhost")>> >>, ""),
      Provider("env", << >>, "APP"),
      Provider("secrets", << >>, SecretsPath),
      Provider("dynamic", << >>, "setPort"),
      Provider("dynamic", << >>, "setLimitThenFail") }

\* The validators callers attach: NewDefaultValidator(), and a validator of
\* the caller's own that rejects every record.
ValidatorChoices ==
    { Validator("default", << >>, TRUE, NoErr),
      Validator("custom", << >>, FALSE, <<"rejected by the caller's validator">>) }

\* The orders a run's map iterations can take: a choice only where Load ranges
\* over a map of two entries (DefaultValues, or the validator's rules).
IterOrders(ps, v) ==
    IF (\E j \in 1..Len(ps) : Len(ps[j].values) > 1) \/ Len(v.rules) > 1
    THEN {"fwd", "rev"} ELSE {"fwd"}

Init ==
    /\ providers = << >>
    /\ validator = NoValidator
    /\ environ \in Environments
    /\ secretsDir \in Directories
    /\ goarch = "amd64"
    /\ observers = << >>
    /\ last = None
    /\ arg = None
    /\ res = None

\* Configurator.WithProvider
WithProvider(p) ==
    /\ Len(providers) < MaxProviders
    /\ providers' = Append(providers, p)
    /\ last' = None
    /\ UNCHANGED <<validator, environ, secretsDir, goarch, observers, arg, res>>

\* Configurator.WithValidator
WithValidator(v) ==
    /\ validator' = v
    /\ last' = None
    /\ UNCHANGED <<providers, environ, secretsDir, goarch, observers, arg, res>>

\* Configurator.Load on the caller's record c.  Load keeps no state of its
\* own in the Configurator, so one call is observed per built configuration:
\* last keeps what the call was handed, the invocations it made, the record
\* as the call left it and what it returned, until the next builder step.
LoadWith(c, iter, r) ==
    /\ ~last.called
    /\ last' = [called |-> TRUE, providers |-> providers, validator |-> validator,
                before |-> c, iter |-> iter, cfg |-> r.cfg, err |-> r.err,
                panic |-> r.panic, calls |-> r.calls]
    /\ UNCHANGED <<providers, validator, environ, secretsDir, goarch, observers, arg, res>>

Load(c) ==
    \E iter \in IterOrders(providers, validator) :
        LoadWith(c, iter, ConfiguratorLoad(providers, validator, c, iter))

Next ==
    \/ \E p \in ProviderChoices : WithProvider(p)
    \/ \E v \in ValidatorChoices : WithValidator(v)
    \/ \E c \in RecordArgs : Load(c)

Spec == Init /\ [][Next]_vars

-----------------------------------------------------------------------------
(* properties of the pipeline *)

\* The invocations of providers, and of the validator, the last Load made.
ProviderCalls == SelectSeq(last.calls, LAMBDA x : x.who = "provider")
ValidatorCalls == SelectSeq(last.calls, LAMBDA x : x.who = "validator")

\* A record Load accepts: a non-nil pointer to a struct.
StructPointer(c) == c.k = "ptr" /\ c.l # << >> /\ c.l[1].k = "struct"

\* The last Load ran its providers: it was handed a record it accepts.
Ran == last.called /\ StructPointer(last.before)

\* C1: Load invokes the providers one at a time in registration order, each
\* on the record as the one before it left it; it stops at the first one that
\* returns an error and returns that error, invoking none after it; and the
\* record it leaves is the record as the last provider invoked left it, so
\* what the providers before it wrote is still there.
C1_OrderedAbortNoRollback ==
    Ran =>
      LET pc == ProviderCalls
          k  == Len(pc)
      IN /\ k <= Len(providers)
         /\ \A j \in 1..k :
               /\ pc[j].idx = j
               /\ pc[j].before = (IF j = 1 THEN last.before ELSE pc[j - 1].after)
               /\ pc[j].after = ProviderLoad(providers[j], pc[j].before, last.iter).cfg
               /\ pc[j].err = ProviderLoad(providers[j], pc[j].before, last.iter).err
               /\ j < k => pc[j].err = NoErr
         /\ k < Len(providers) => k >= 1 /\ pc[k].err # NoErr
         /\ (k >= 1 /\ pc[k].err # NoErr) =>
               /\ last.err = pc[k].err
               /\ last.calls = pc
               /\ last.cfg = pc[k].after
               /\ \A j \in 1..k, loc \in LeafLocs :
                     (\A m \in (j + 1)..k :
                          GetAt(pc[m].after, loc) = GetAt(pc[m].before, loc))
                        => GetAt(last.cfg, loc) = GetAt(pc[j].after, loc)

\* A Load whose first provider wrote to the record and whose second provider
\* failed: the error is returned and the first provider's writes are kept.
C1_Witness ==
    /\ Ran
    /\ Len(providers) = 2
    /\ Len(last.calls) = 2
    /\ last.calls[1].err = NoErr
    /\ last.calls[1].after # last.calls[1].before
    /\ last.calls[2].err # NoErr
    /\ last.err = last.calls[2].err
    /\ \E loc \in LeafLocs :
          /\ GetAt(last.cfg, loc) # GetAt(last.before, loc)
          /\ GetAt(last.cfg, loc) = GetAt(last.calls[1].after, loc)

\* Every provider was invoked and returned no error.
AllProvidersSucceeded ==
    /\ Len(ProviderCalls) = Len(providers)
    /\ \A j \in 1..Len(ProviderCalls) : ProviderCalls[j].err = NoErr

\* C2: with a validator attached, Load invokes it once, after the last
\* provider, exactly when every provider returned no error, and never when a
\* provider failed; what the validator returns, error or ok, is what Load
\* returns.
C2_ValidatorOnceAfterProviders ==
    (Ran /\ validator.kind # "nil") =>
       /\ Len(ValidatorCalls) <= 1
       /\ Len(ValidatorCalls) = 1 <=> AllProvidersSucceeded
       /\ Len(ValidatorCalls) = 1 =>
             /\ last.calls[Len(last.calls)].who = "validator"
             /\ ValidatorCalls[1].before = last.cfg
             /\ ValidatorCalls[1].err = ValidatorValidate(validator, last.cfg, last.iter)
             /\ last.err = ValidatorCalls[1].err

\* A Load whose two providers succeeded and whose validator then rejected the
\* record.
C2_Witness ==
    /\ Ran
    /\ validator.kind # "nil"
    /\ Len(providers) = 2
    /\ AllProvidersSucceeded
    /\ Len(ValidatorCalls) = 1
    /\ ValidatorCalls[1].err # NoErr
    /\ last.err = ValidatorCalls[1].err

\* C3: Load on a record that is not a non-nil pointer to a struct (nil, a
\* value that is no pointer, a pointer to a non-struct, a nil struct pointer)
\* returns ErrInvalidConfig, invokes no provider and no validator, and leaves
\* the record as it was.
C3_InvalidRecordRejected ==
    (last.called /\ ~StructPointer(last.before)) =>
       /\ last.err = ErrInvalidConfig
       /\ last.calls = << >>
       /\ last.cfg = last.before
       /\ ~last.panic

\* A Load on a nil *Config with two providers and a validator registered.
C3_Witness ==
    /\ last.called
    /\ last.before = NilPtr("*Config")
    /\ Len(providers) = 2
    /\ validator.kind # "nil"
    /\ last.err = ErrInvalidConfig

\* The name, after the prefix, of the variable the environment provider reads
\* for the field at loc, and the file the secrets provider reads for it.
EnvKey(loc) ==
    CASE loc = LocHost  -> "SERVER_HOST"
      [] loc = LocPort  -> "SERVER_PORT"
      [] loc = LocPass  -> "DB_PASS"
      [] loc = LocSize  -> "POOL_SIZE"
      [] loc = LocLimit -> "LIMIT"
      [] OTHER          -> "TAGS"

SecretKey(loc) ==
    CASE loc = LocHost  -> "SERVER_HOST"
      [] loc = LocPort  -> "SERVER_PORT"
      [] loc = LocPass  -> "DB_PASS"
      [] loc = LocSize  -> "DB_POOL_SIZE"
      [] loc = LocLimit -> "LIMIT"
      [] OTHER          -> "TAGS"

\* The content of the secret file of that name, "" when there is none.
SecretContent(name) ==
    IF secretsDir.exists /\ \E i \in 1..Len(secretsDir.entries) : secretsDir.entries[i].name = name
    THEN secretsDir.entries[CHOOSE i \in 1..Len(secretsDir.entries) :
                                secretsDir.entries[i].name = name].content
    ELSE ""

\* The text a non-default provider's source holds for the field at loc; ""
\* when the source holds nothing for it, and the provider does not write it.
SourceText(p, loc) ==
    CASE p.kind = "env"     -> Getenv(p.p \o "_" \o EnvKey(loc))
      [] p.kind = "secrets" -> SecretContent(SecretKey(loc))
      [] p.kind = "dynamic" /\ p.p = "setPort" /\ loc = LocPort -> "7070"
      [] p.kind = "dynamic" /\ p.p = "setLimitThenFail" /\ loc = LocLimit -> "9"
      [] OTHER -> ""

\* The providers, by position, whose source holds a value for the field.
Writers(loc) == {j \in 1..Len(providers) : SourceText(providers[j], loc) # ""}

LastOf(S) == CHOOSE j \in S : \A m \in S : m <= j

\* The field holds the value the text stands for.
Holds(field, text) ==
    IF field.k = "string" THEN field.s = text ELSE field.n = DecimalValue(text)

NoDefaultProvider == \A j \in 1..Len(providers) : providers[j].kind # "default"

\* C4: after a successful Load through non-default providers only, every field
\* holds the value of the last provider, in registration order, whose source
\* holds a value for it, whatever the field held before; a field no provider
\* has a value for is as it was.
C4_LastWriterWins ==
    (Ran /\ last.err = NoErr /\ ~last.panic /\ NoDefaultProvider) =>
       \A loc \in LeafLocs :
          IF Writers(loc) = {}
          THEN GetAt(last.cfg, loc) = GetAt(last.before, loc)
          ELSE Holds(GetAt(last.cfg, loc), SourceText(providers[LastOf(Writers(loc))], loc))

\* A successful Load on a record whose port was already set, through two
\* providers whose sources hold different ports: the second one's is kept.
C4_Witness ==
    /\ Ran
    /\ last.err = NoErr
    /\ NoDefaultProvider
    /\ Writers(LocPort) = {1, 2}
    /\ SourceText(providers[1], LocPort) # SourceText(providers[2], LocPort)
    /\ GetAt(last.before, LocPort).n # 0
    /\ Holds(GetAt(last.cfg, LocPort), SourceText(providers[2], LocPort))
    /\ ~Holds(GetAt(last.cfg, LocPort), SourceText(providers[1], LocPort))

-----------------------------------------------------------------------------
(* DefaultProvider.Load on records of scalar fields *)

\* A *Scalars holding the given values.
ScalarsOf(flag, count, small, wide, ratio, name, lvl) ==
    PtrTo("*Scalars",
          ListVal("struct", "Scalars",
              << BoolVal("bool", flag), NumVal("int", "int", count),
                 NumVal("int8", "int8", small), NumVal("uint16", "uint16", wide),
                 NumVal("float64", "float64", ratio), StrVal("string", name),
                 NumVal("int", "Level", lvl) >>))

\* The records DefaultProvider.Load is handed: every field at its zero or not.
ScalarRecords ==
    { ScalarsOf(flag, count, small, wide, ratio, name, lvl) :
        flag \in BOOLEAN, count \in {0, 5}, small \in {0, -3}, wide \in {0, 9},
        ratio \in {0, 25}, name \in {"", "n0"}, lvl \in {0, 2} }

\* Defaults of each field's own type, and a numeral for Count.
UsableDefaults ==
    { <<"Flag", BoolVal("bool", TRUE)>>,
      <<"Count", NumVal("int", "int", 42)>>,
      <<"Small", NumVal("int8", "int8", 7)>>,
      <<"Wide", NumVal("uint16", "uint16", 300)>>,
      <<"Ratio", NumVal("float64", "float64", 15)>>,
      <<"Name", StrVal("string", "dflt")>>,
      <<"Lvl", NumVal("int", "Level", 3)>>,
      <<"Count", StrVal("string", "12")>> }

\* Defaults that do not resolve or cannot be assigned: an unknown name, a
\* path through a field that is no struct, a text that is no boolean, a
\* numeral and an integer beyond the field's width, and for Lvl the untyped
\* literal 3, an int.
UnusableDefaults ==
    { <<"Gone", NumVal("int", "int", 1)>>,
      <<"Name.First", StrVal("string", "v")>>,
      <<"Flag", StrVal("string", "maybe")>>,
      <<"Wide", StrVal("string", "70000")>>,
      <<"Small", NumVal("int", "int", 300)>>,
      <<"Lvl", NumVal("int", "int", 3)>> }

\* The entries DefaultValues is made of.
DefaultEntries == UsableDefaults \cup UnusableDefaults

\* DefaultValues of one or two entries, in the order this run's iteration
\* over the map yields them.
DefaultMaps ==
    { <<e>> : e \in DefaultEntries }
       \cup { pair \in DefaultEntries \X DefaultEntries : pair[1][1] # pair[2][1] }

InitDefault ==
    /\ \E values \in DefaultMaps : providers = << Provider("default", values, "") >>
    /\ validator = NoValidator
    /\ environ = [APP_SERVER_HOST |-> ""]
    /\ secretsDir = [exists |-> FALSE, listable |-> FALSE, entries |-> << >>]
    /\ goarch = "amd64"
    /\ observers = << >>
    /\ last = None
    /\ arg \in { [cfg |-> c] : c \in ScalarRecords }
    /\ res = None

\* The provider's Load, called directly on the record; res keeps the record
\* as the call left it and what it returned.
ProviderReturned(o) ==
    /\ ~res.called
    /\ res' = [called |-> TRUE, cfg |-> o.cfg, err |-> o.err, panic |-> o.panic]
    /\ UNCHANGED <<providers, validator, environ, secretsDir, goarch, observers, last, arg>>

LoadProvider == ProviderReturned(ProviderLoad(providers[1], arg.cfg, "fwd"))

SpecDefault == InitDefault /\ [][LoadProvider]_vars

ScalarLocs == {<<i>> : i \in 1..7}

\* The default DefaultValues holds for the field at loc, if any.
HasDefault(loc) ==
    \E i \in 1..Len(providers[1].values) :
        providers[1].values[i][1] = StructDef("Scalars")[loc[1]].name

DefaultFor(loc) ==
    providers[1].values[CHOOSE i \in 1..Len(providers[1].values) :
        providers[1].values[i][1] = StructDef("Scalars")[loc[1]].name][2]

\* The field is at the zero of its kind.
AtZero(field) == ~field.b /\ field.n = 0 /\ field.s = "" /\ field.l = << >>

SameData(x, y) == x.b = y.b /\ x.n = y.n /\ x.s = y.s /\ x.l = y.l

\* C5: DefaultProvider.Load leaves every scalar field that holds a non-zero
\* value as it is, and a field at its zero whose path has a default of the
\* field's kind ends equal to that default.
C5_DefaultsFillOnlyZeroFields ==
    res.called =>
       \A loc \in ScalarLocs :
          /\ ~AtZero(GetAt(arg.cfg, loc)) => GetAt(res.cfg, loc) = GetAt(arg.cfg, loc)
          /\ (AtZero(GetAt(arg.cfg, loc)) /\ HasDefault(loc)
                /\ DefaultFor(loc).k = GetAt(arg.cfg, loc).k)
                => SameData(GetAt(res.cfg, loc), DefaultFor(loc))

\* The part of C5 about fields that are set: no default replaces them.
C5_NonZeroFieldsKept ==
    res.called =>
       \A loc \in ScalarLocs :
          ~AtZero(GetAt(arg.cfg, loc)) => GetAt(res.cfg, loc) = GetAt(arg.cfg, loc)

\* Load was handed a record whose Lvl is zero with the default 3 of type int.
C5_NamedTypeDefault ==
    /\ res.called
    /\ AtZero(GetAt(arg.cfg, <<7>>))
    /\ HasDefault(<<7>>)
    /\ DefaultFor(<<7>>).t = "int"
    /\ res.panic

-----------------------------------------------------------------------------
(* EnvProvider.Load on a *Config under every environment *)

\* The environments: every variable unset (""), or set to one of the texts.
\* APP_db_pass is the name the tag of Db.Pass spells, APP_DB_PASS its
\* upper-casing; SERVER_PORT is the name without a prefix.
EnvSpace ==
    { [APP_SERVER_HOST |-> host, APP_SERVER_PORT |-> port, APP_db_pass |-> lower,
       APP_DB_PASS |-> upper, APP_POOL_SIZE |-> size, APP_LIMIT |-> limit,
       SERVER_PORT |-> bare] :
        host \in {"", "testhost"},
        port \in {"", "9090", "not-a-number", "2000000"},
        lower \in {"", "lower"}, upper \in {"", "upper"},
        size \in {"", "12", "40000"},
        limit \in {"", "200", "300"},
        bare \in {"", "8080"} }

InitEnv ==
    /\ \E prefix \in {"APP", ""} : providers = << Provider("env", << >>, prefix) >>
    /\ validator = NoValidator
    /\ environ \in EnvSpace
    /\ secretsDir = [exists |-> FALSE, listable |-> FALSE, entries |-> << >>]
    /\ goarch = "amd64"
    /\ observers = << >>
    /\ last = None
    /\ arg \in { [cfg |-> c] : c \in {ZeroConfig, ConfigOf("h0", 5, "p0", 3, 7, <<"a">>)} }
    /\ res = None

SpecEnv == InitEnv /\ [][LoadProvider]_vars

\* The fields of Config that carry an env tag, and the tag as written.
TaggedLocs == {LocHost, LocPort, LocPass, LocSize, LocLimit}

TagAt(loc) ==
    CASE loc = LocHost  -> "SERVER_HOST"
      [] loc = LocPort  -> "SERVER_PORT"
      [] loc = LocPass  -> "db_pass"
      [] loc = LocSize  -> "POOL_SIZE"
      [] OTHER          -> "LIMIT"

\* The variable for the field at loc: the prefix, "_", and the tag as written;
\* or the tag upper-cased, alone when the prefix is empty.
VerbatimName(loc) == providers[1].p \o "_" \o TagAt(loc)
UpperName(loc) ==
    IF providers[1].p = "" THEN EnvKey(loc) ELSE providers[1].p \o "_" \o EnvKey(loc)

\* The text is a value for the field: any text for a string, a decimal
\* number inside the field's range for an integer.
FitsField(text, field) ==
    \/ field.k = "string"
    \/ /\ text # "" /\ AllDigits(text)
       /\ DecimalValue(text) <= (IF field.k \in UintKinds THEN Pow2(Bits(field.k)) - 1
                                 ELSE Pow2(Bits(field.k) - 1) - 1)

IntegerLocs == {LocPort, LocSize, LocLimit}

\* C7: when the variable of an integer field holds a text that is no number
\* for the field (not a number, or past the field's width), EnvProvider.Load
\* returns an error about applying a variable, and the field is as it was.
C7_BadNumberRejected ==
    res.called =>
       \A loc \in IntegerLocs :
          (Getenv(UpperName(loc)) # ""
              /\ ~FitsField(Getenv(UpperName(loc)), GetAt(arg.cfg, loc))) =>
             /\ res.err # NoErr
             /\ res.err[1] = "failed to apply environment variable"
             /\ GetAt(res.cfg, loc) = GetAt(arg.cfg, loc)

\* A Load that found "not-a-number" for a port holding 5: it returned the
\* error for that variable and the port still holds 5.
C7_Witness ==
    /\ res.called
    /\ providers[1].p = "APP"
    /\ environ.APP_SERVER_PORT = "not-a-number"
    /\ GetAt(arg.cfg, LocPort).n = 5
    /\ res.err # NoErr
    /\ res.err[2] = "APP_SERVER_PORT"
    /\ GetAt(res.cfg, LocPort).n = 5

-----------------------------------------------------------------------------
(* the rules, called directly and through a validate tag, and Load with the  *)
(* default validator on a record whose fields are all required                *)

\* The integers a field of kind k can hold, among those given.
Within(k, values) ==
    { x \in values : IF k \in UintKinds THEN x >= 0 /\ x <= Pow2(Bits(k)) - 1
                     ELSE x >= -Pow2(Bits(k) - 1) /\ x <= Pow2(Bits(k) - 1) - 1 }

\* The values the rules are applied to.
RuleValues ==
    { StrVal("string", ""), StrVal("string", "x"),
      BoolVal("bool", FALSE), BoolVal("bool", TRUE),
      NumVal("float64", "float64", 0), NumVal("float64", "float64", 15),
      NumVal("float64", "float64", -15),
      StringSlice(<< >>), StringSlice(<<"a">>),
      ListVal("map", "map[string]string", << >>),
      ListVal("map", "map[string]string", <<StrVal("string", "v")>>),
      NilPtr("*Pool"), PtrTo("*Pool", Zero("struct", "Pool")),
      Zero("struct", "Pool") }
      \cup UNION { { NumVal(k, k, x) :
                       x \in Within(k, {-10, -6, -5, -2, -1, 0, 1, 5, 100, 200, 255, 256,
                                        65535, 65536, Pow2(WordBits) - 1}) } :
                   k \in IntKinds \cup UintKinds }

\* A clause as a validate tag spells it and as the rule constructors take it.
Clause(tag, rule) == [tag |-> tag, rule |-> rule]

Clauses ==
    { Clause("required", Rule("required", 0, 0)),
      Clause("range:1-65535", Rule("range", 1, 65535)),
      Clause("range:0-255", Rule("range", 0, 255)),
      Clause("range:5-5", Rule("range", 5, 5)),
      Clause("range:100-200", Rule("range", 100, 200)),
      Clause("range:-5-5", Rule("range", -5, 5)),
      Clause("range:-10--2", Rule("range", -10, -2)),
      Clause("min:1", Rule("min", 1, 0)),
      Clause("min:-1", Rule("min", -1, 0)),
      Clause("min:256", Rule("min", 256, 0)),
      Clause("max:0", Rule("max", 0, 0)),
      Clause("max:-1", Rule("max", -1, 0)),
      Clause("max:255", Rule("max", 255, 0)) }

\* A *Required holding the given values.
RequiredOf(str, i, u, f, l, m, ptr) ==
    PtrTo("*Required",
          ListVal("struct", "Required",
              << StrVal("string", str), NumVal("int", "int", i), NumVal("uint", "uint", u),
                 NumVal("float64", "float64", f), StringSlice(l),
                 ListVal("map", "map[string]string", m), ptr >>))

\* The records Load is handed: every field at its zero or not.
RequiredRecords ==
    { RequiredOf(str, i, u, f, l, m, ptr) :
        str \in {"", "x"}, i \in {0, -4}, u \in {0, 6}, f \in {0, 5},
        l \in {<< >>, <<"a">>}, m \in {<< >>, <<StrVal("string", "v")>>},
        ptr \in {NilPtr("*Pool"), PtrTo("*Pool", Zero("struct", "Pool"))} }

\* What is studied: a rule on a value, or Load on a record.
RuleInputs ==
    { [kind |-> "value", value |-> v, clause |-> c, record |-> NilPtr("*Required")] :
        v \in RuleValues, c \in Clauses }
RecordInputs ==
    { [kind |-> "record", value |-> Invalid,
       clause |-> Clause("required", Rule("required", 0, 0)), record |-> r] :
        r \in RequiredRecords }

\* The providers registered before the validator runs: none, or defaults for
\* the S and I fields.
RequiredDefaults ==
    Provider("default", << <<"S", StrVal("string", "dflt")>>,
                           <<"I", NumVal("int", "int", 11)>> >>, "")

InitRule ==
    /\ providers \in { << >>, <<RequiredDefaults>> }
    /\ validator = Validator("default", << >>, TRUE, NoErr)
    /\ environ = [APP_SERVER_HOST |-> ""]
    /\ secretsDir = [exists |-> FALSE, listable |-> FALSE, entries |-> << >>]
    /\ goarch = "amd64"
    /\ observers = << >>
    /\ last = None
    /\ arg \in RuleInputs \cup RecordInputs
    /\ res = None

RuleReturned(via, err) ==
    /\ arg.kind = "value"
    /\ ~res.called
    /\ res' = [called |-> TRUE, via |-> via, err |-> err]
    /\ UNCHANGED <<providers, validator, environ, secretsDir, goarch, observers, last, arg>>

\* The rule function, as AddRule would receive it, called on the value.
ApplyRule == RuleReturned("rule", CallRule(arg.clause.rule, arg.value))

\* validateFieldByTag on a field holding the value and tagged with the clause.
ApplyTag == RuleReturned("tag", validateFieldByTag(arg.value, "Field", arg.clause.tag))

\* Configurator.Load on the record.
LoadRecord == arg.kind = "record" /\ Load(arg.record)

NextRule_ == ApplyRule \/ ApplyTag \/ LoadRecord

SpecRule == InitRule /\ [][NextRule_]_vars

\* The kinds the required rule decides on.
RequiredKinds ==
    {"string", "slice", "map", "ptr"} \cup IntKinds \cup UintKinds \cup FloatKinds

\* C8: the required rule, called directly or through a tag, fails exactly on
\* the zero of its kind: the empty string, a zero signed, unsigned or float
\* number, an empty sequence or mapping, a nil pointer; so Load with the
\* default validator fails exactly when a field tagged required is at its zero
\* in the record the providers left.
C8_RequiredFailsOnZero ==
    /\ (res.called /\ arg.clause.rule.name = "required" /\ arg.value.k \in RequiredKinds)
          => (res.err # NoErr <=> AtZero(arg.value))
    /\ (last.called /\ arg.kind = "record")
          => (last.err # NoErr <=> \E i \in 1..7 : AtZero(GetAt(last.cfg, <<i>>)))

\* A Load whose default provider filled the empty S, and which still failed
\* on the empty mapping M.
C8_Witness ==
    /\ last.called
    /\ arg.kind = "record"
    /\ Len(providers) = 1
    /\ AtZero(GetAt(last.before, <<1>>))
    /\ ~AtZero(GetAt(last.cfg, <<1>>))
    /\ AtZero(GetAt(last.cfg, <<6>>))
    /\ \A i \in {2, 3, 4, 5, 7} : ~AtZero(GetAt(last.cfg, <<i>>))
    /\ last.err # NoErr

\* C9: a range clause with bounds 0 <= MIN <= MAX, called directly or through
\* a tag on a signed or unsigned integer, passes exactly when
\* MIN <= value <= MAX.
C9_RangeInclusive ==
    (res.called /\ arg.clause.rule.name = "range" /\ arg.clause.rule.a >= 0
        /\ arg.value.k \in IntKinds \cup UintKinds) =>
       (res.err = NoErr <=> (arg.clause.rule.a <= arg.value.n
                               /\ arg.value.n <= arg.clause.rule.b))

\* The tag range:1-65535 on an unsigned field holding 65535: accepted.
C9_Witness ==
    /\ res.called
    /\ res.via = "tag"
    /\ arg.clause.tag = "range:1-65535"
    /\ arg.value.k = "uint16"
    /\ arg.value.n = 65535
    /\ res.err = NoErr

-----------------------------------------------------------------------------
(* the coercion engine on unsigned fields *)

\* The values coerced: integers of every kind, decimal and other texts, and
\* floats (in tenths) inside and outside the range of the 64-bit word.
CoerceValues ==
    UNION { { NumVal(k, k, x) :
                x \in Within(k, {-300, -1, 0, 7, 255, 256, 300, 65535, 65536,
                                 Pow2(WordBits - 1) - 1, Pow2(WordBits) - 1}) } :
            k \in IntKinds \cup UintKinds }
    \cup { StrVal("string", t) :
             t \in {"", "7", "255", "256", "300", "-1", "65535", "65536", "abc",
                    "99999999"} }
    \cup { NumVal("float64", "float64", f) :
             f \in {0, 75, -5, -10, 2559, 2560, 3000, 655360,
                    Pow2(WordBits - 1) * 10, (Pow2(WordBits) - 1) * 10 + 9,
                    Pow2(WordBits) * 10, Pow2(WordBits + 3) * 10,
                    -Pow2(WordBits + 3) * 10} }

\* The unsigned fields coerced into, holding a value already.
UnsignedFields == { NumVal(k, k, prior) : k \in UintKinds, prior \in {0, 7} }

InitCoerce ==
    /\ providers = << >>
    /\ validator = NoValidator
    /\ environ = [APP_SERVER_HOST |-> ""]
    /\ secretsDir = [exists |-> FALSE, listable |-> FALSE, entries |-> << >>]
    /\ goarch \in {"amd64", "arm64"}
    /\ observers = << >>
    /\ last = None
    /\ arg \in { [field |-> f, value |-> v] : f \in UnsignedFields, v \in CoerceValues }
    /\ res = None

CoerceReturned(via, field, err, panic) ==
    /\ ~res.called
    /\ res' = [called |-> TRUE, via |-> via, field |-> Stored(field), err |-> err,
               panic |-> panic]
    /\ UNCHANGED <<providers, validator, environ, secretsDir, goarch, observers, last, arg>>

SetReturned(o) == CoerceReturned("setFieldValue", o.field, o.err, o.panic)

ApplyReturned(o) == CoerceReturned("applyValueToField", o.field, o.err, FALSE)

\* setFieldValue(field, value) on a settable field.
SetFieldValue == SetReturned(setFieldValue(FieldValue(arg.field, TRUE), arg.value))

\* applyValueToField(field, text) on the field.
ApplyValueToField ==
    /\ arg.value.k = "string"
    /\ ApplyReturned(applyValueToField(FieldValue(arg.field, TRUE), arg.value.s))

NextCoerce == SetFieldValue \/ ApplyValueToField

SpecCoerce == InitCoerce /\ [][NextCoerce]_vars

\* The text is a decimal numeral with an optional minus sign.
IsNumeral(t) ==
    /\ t # ""
    /\ IF Char(t, 1) = "-" THEN Len(t) > 1 /\ AllDigits(Tail(t)) ELSE AllDigits(t)

\* The number a value stands for: an integer, a numeral's integer, a float's
\* integer part.
NumberOf(value) ==
    CASE value.k = "string" ->
            IF Char(value.s, 1) = "-" THEN -DecimalValue(Tail(value.s))
            ELSE DecimalValue(value.s)
      [] value.k \in FloatKinds -> Truncate(value.n)
      [] OTHER -> value.n

\* The value is a number outside the range of an unsigned field of kind k.
DoesNotFit(value, k) ==
    /\ value.k \in IntKinds \cup UintKinds \cup FloatKinds
          \/ (value.k = "string" /\ IsNumeral(value.s))
    /\ NumberOf(value) < 0 \/ NumberOf(value) > Pow2(Bits(k)) - 1

\* The coercion was refused and the field is as it was.
Refused == res.err # NoErr /\ ~res.panic /\ res.field = arg.field

\* C10: coercing a value that does not fit an unsigned field (an integer or a
\* decimal text above the field's maximum, a negative number, a float beyond
\* the field's range) returns an error and leaves the field at the value it
\* held.
C10_UnsignedOverflowRejected ==
    (res.called /\ DoesNotFit(arg.value, arg.field.k)) => Refused

\* The same for integer and text sources alone.
C10_IntegerAndTextRejected ==
    (res.called /\ DoesNotFit(arg.value, arg.field.k) /\ arg.value.k \notin FloatKinds)
        => Refused

\* The literal 300 and the text "300" into an 8-bit unsigned field holding 7.
C10_LiteralRefused ==
    /\ res.called
    /\ arg.field = NumVal("uint8", "uint8", 7)
    /\ arg.value \in {NumVal("int", "int", 300), StrVal("string", "300")}
    /\ Refused

-----------------------------------------------------------------------------
(* ObservableConfigurator: the pipeline wrapped with observers *)

\* The number of observers registered at most.
MaxObservers == 2

\* A call delivered to an observer: OnLoad, OnValidate (with the event's Valid
\* flag) or OnError (with the event's Error).
Delivery(kind, to, valid, err) == [kind |-> kind, to |-> to, valid |-> valid, err |-> err]

\* Deliveries that skip the first observer.
NotifySkippingFirst(obs, kind, valid, err) ==
    [i \in 1..(Len(obs) - 1) |-> Delivery(kind, obs[i + 1], valid, err)]

\* The loop of notifyLoad, notifyValidation and notifyError over c.observers.
Notify(obs, kind, valid, err) ==
    [i \in 1..Len(obs) |-> Delivery(kind, obs[i], valid, err)]

notifyLoad(obs) == Notify(obs, "OnLoad", FALSE, NoErr)

notifyValidation(obs, valid) == Notify(obs, "OnValidate", valid, NoErr)

notifyError(obs, err) == Notify(obs, "OnError", FALSE, err)

\* What ObservableConfigurator.Load leaves: the wrapped Load's outcome and the
\* calls delivered to the observers, in order.
Observed(r, events) ==
    [called |-> TRUE, cfg |-> r.cfg, err |-> r.err, panic |-> r.panic,
     inner |-> r.err, events |-> events]

\* A load that reports success to the observers whatever the wrapped Load
\* returned.
AfterLoadAlwaysSuccess(obs, r) ==
    Observed(r, notifyLoad(obs) \o notifyValidation(obs, TRUE))

\* ObservableConfigurator.Load once the wrapped Load has returned r (when it
\* panicked, the panic propagates and nothing is delivered).
AfterLoad(obs, r) ==
    IF r.panic THEN Observed(r, << >>)
    ELSE IF r.err # NoErr THEN Observed(r, notifyError(obs, r.err))
    ELSE Observed(r, notifyLoad(obs) \o notifyValidation(obs, TRUE))

ObservableLoad(obs, ps, v, c, iter) == AfterLoad(obs, ConfiguratorLoad(ps, v, c, iter))

\* The observers that register.
ObserverChoices == {"first", "second"}

\* The pipelines wrapped: none, one that succeeds, ones that fail at a
\* provider, and ones that reach the validator.
WrappedPipelines ==
    { << >>,
      <<Provider("dynamic", << >>, "setPort")>>,
      <<Provider("dynamic", << >>, "setLimitThenFail")>>,
      <<Provider("dynamic", << >>, "setPort"), Provider("dynamic", << >>, "unavailable")>>,
      <<Provider("env", << >>, "APP")>> }

InitObserve ==
    /\ providers \in WrappedPipelines
    /\ validator \in ValidatorChoices \cup {NoValidator}
    /\ environ \in Environments
    /\ secretsDir = [exists |-> FALSE, listable |-> FALSE, entries |-> << >>]
    /\ goarch = "amd64"
    /\ observers = << >>
    /\ last = None
    /\ arg = None
    /\ res = None

\* WithObserver
WithObserver(o) ==
    /\ Len(observers) < MaxObservers
    /\ ~res.called
    /\ observers' = Append(observers, o)
    /\ UNCHANGED <<providers, validator, environ, secretsDir, goarch, last, arg, res>>

ObservableReturned(r) ==
    /\ ~res.called
    /\ res' = r
    /\ UNCHANGED <<providers, validator, environ, secretsDir, goarch, observers, last, arg>>

\* ObservableConfigurator.Load
LoadObserved(c) ==
    \E iter \in IterOrders(providers, validator) :
        ObservableReturned(ObservableLoad(observers, providers, validator, c, iter))

NextObserve ==
    \/ \E o \in ObserverChoices : WithObserver(o)
    \/ \E c \in RecordArgs : LoadObserved(c)

SpecObserve == InitObserve /\ [][NextObserve]_vars

\* The deliveries of one kind, in the order they were made.
RECURSIVE OfKind(_, _)
OfKind(events, kind) ==
    IF events = << >> THEN << >>
    ELSE IF Head(events).kind = kind THEN <<Head(events)>> \o OfKind(Tail(events), kind)
    ELSE OfKind(Tail(events), kind)

\* The observers a sequence of deliveries went to, in order.
Receivers(events) == [i \in 1..Len(events) |-> events[i].to]

\* C11: when the wrapped Load succeeds, each registration receives exactly one
\* OnLoad and then exactly one OnValidate with Valid true, the OnLoad calls and
\* the OnValidate calls each go out in registration order, no OnError is
\* delivered and Load returns no error, with or without a validator.
C11_SuccessNotifiesLoadThenValidate ==
    (res.called /\ ~res.panic /\ res.inner = NoErr) =>
       /\ res.err = NoErr
       /\ Len(res.events) = 2 * Len(observers)
       /\ Receivers(OfKind(res.events, "OnLoad")) = observers
       /\ Receivers(OfKind(res.events, "OnValidate")) = observers
       /\ OfKind(res.events, "OnError") = << >>
       /\ \A i \in 1..Len(res.events) :
             res.events[i].kind = "OnValidate" => res.events[i].valid
       /\ \A i \in 1..Len(observers) :
             /\ res.events[i].kind = "OnLoad"
             /\ res.events[Len(observers) + i].kind = "OnValidate"

\* A successful load with no validator and two observers: four deliveries.
C11_Witness ==
    /\ res.called
    /\ validator = NoValidator
    /\ observers = <<"second", "first">>
    /\ res.err = NoErr
    /\ Len(res.events) = 4
    /\ res.events[2] = Delivery("OnLoad", "first", FALSE, NoErr)
    /\ res.events[3] = Delivery("OnValidate", "second", TRUE, NoErr)

\* C12: when the wrapped Load fails, each registration receives exactly one
\* OnError carrying the error, in registration order, nothing else is
\* delivered, and Load returns that same error.
C12_FailureNotifiesError ==
    (res.called /\ ~res.panic /\ res.inner # NoErr) =>
       /\ res.err = res.inner
       /\ Len(res.events) = Len(observers)
       /\ Receivers(res.events) = observers
       /\ \A i \in 1..Len(res.events) :
             res.events[i].kind = "OnError" /\ res.events[i].err = res.inner

\* A load whose provider failed, with two observers: two OnError deliveries
\* carrying the provider's error, which Load returned.
C12_Witness ==
    /\ res.called
    /\ observers = <<"first", "second">>
    /\ res.err = <<"dynamic source failed">>
    /\ res.events = << Delivery("OnError", "first", FALSE, res.err),
                       Delivery("OnError", "second", FALSE, res.err) >>

-----------------------------------------------------------------------------
(* EnvProvider on untagged and tagged fields inside nested structs *)

\* A *Nested holding the given values.
NestedOf(port, name, level, top) ==
    PtrTo("*Nested",
          ListVal("struct", "Nested",
              << ListVal("struct", "NestedServer",
                     << NumVal("int", "int", port), StrVal("string", name) >>),
                 ListVal("struct", "Depth",
                     << ListVal("struct", "Inner", << NumVal("int8", "int8", level) >>) >>),
                 NumVal("int", "int", top) >>))

LocNestedPort  == <<1, 1>>
LocNestedName  == <<1, 2>>
LocNestedLevel == <<2, 1, 1>>
LocNestedTop   == <<3>>
NestedLocs == {LocNestedPort, LocNestedName, LocNestedLevel, LocNestedTop}

\* The environments: each variable unset or set; for every nested field both
\* the name joined through the enclosing fields and the field's name alone.
NestedEnvSpace ==
    { [APP_SERVER_PORT |-> sp, APP_PORT |-> p, APP_SERVER_NAME |-> sn, APP_NAME |-> n,
       APP_DEPTH_INNER_LEVEL |-> dil, APP_LEVEL |-> l, APP_TOP |-> t] :
        sp \in {"", "9090"}, p \in {"", "7000"}, sn \in {"", "joined"}, n \in {"", "own"},
        dil \in {"", "3"}, l \in {"", "4"}, t \in {"", "55"} }

InitNested ==
    /\ providers = << Provider("env", << >>, "APP") >>
    /\ validator = NoValidator
    /\ environ \in NestedEnvSpace
    /\ secretsDir = [exists |-> FALSE, listable |-> FALSE, entries |-> << >>]
    /\ goarch = "amd64"
    /\ observers = << >>
    /\ last = None
    /\ arg \in { [cfg |-> c] : c \in {NestedOf(0, "", 0, 0), NestedOf(1, "n0", 2, 3)} }
    /\ res = None

SpecNested == InitNested /\ [][LoadProvider]_vars

\* The external names of the fields on the way to a location: the env tag,
\* or the field's name upper-cased when it has none.
RECURSIVE ExternalNames(_, _)
ExternalNames(t, loc) ==
    IF loc = << >> THEN << >>
    ELSE <<IF StructDef(t)[Head(loc)].env # "" THEN StructDef(t)[Head(loc)].env
           ELSE ToUpper(StructDef(t)[Head(loc)].name)>>
         \o ExternalNames(StructDef(t)[Head(loc)].t, Tail(loc))

\* The variable named by the prefix and every external name on the way, and
\* the one named by the prefix and the field's own external name.
JoinedName(loc) == Join(<<providers[1].p>> \o ExternalNames("Nested", loc), "_")
OwnName(loc) ==
    Join(<<providers[1].p, ExternalNames("Nested", loc)[Len(loc)]>>, "_")

\* The field holds the text when the variable is set, and what it held
\* before when it is not.
FieldFollows(loc, text) ==
    IF text = "" THEN GetAt(res.cfg, loc) = GetAt(arg.cfg, loc)
    ELSE Holds(GetAt(res.cfg, loc), text)

\* C13: the variable read for a field inside nested structs is the prefix and
\* the external names of the enclosing fields and of the field, joined by "_"
\* (APP_SERVER_PORT for Port inside Server).
C13_NameJoinedThroughNesting ==
    res.called =>
       /\ res.err = NoErr
       /\ \A loc \in NestedLocs : FieldFollows(loc, Getenv(JoinedName(loc)))

\* What is read instead: the prefix and the field's own external name (APP_PORT).
C13_OwnNameRead ==
    res.called =>
       /\ res.err = NoErr
       /\ \A loc \in NestedLocs : FieldFollows(loc, Getenv(OwnName(loc)))

\* APP_SERVER_PORT is set, APP_PORT is not, and Port is still zero.
C13_JoinedNameIgnored ==
    /\ res.called
    /\ environ.APP_SERVER_PORT = "9090"
    /\ environ.APP_PORT = ""
    /\ GetAt(arg.cfg, LocNestedPort).n = 0
    /\ GetAt(res.cfg, LocNestedPort).n = 0

-----------------------------------------------------------------------------
(* further properties of the rules *)

\* C14: the required rule, called directly or through a tag, fails on a
\* boolean holding false and succeeds on one holding true.
C14_RequiredOnBool ==
    (res.called /\ arg.clause.rule.name = "required" /\ arg.value.k = "bool")
        => (res.err # NoErr <=> ~arg.value.b)

\* The tag clause required on a boolean field holding false: no error.
C14_FalseAccepted ==
    /\ res.called
    /\ res.via = "tag"
    /\ arg.clause.tag = "required"
    /\ arg.value = BoolVal("bool", FALSE)
    /\ res.err = NoErr

\* C15: for integers MIN <= MAX, negative ones included, the tag clause
\* range:MIN-MAX on a signed integer field passes exactly when
\* MIN <= value <= MAX.
C15_RangeTagNegativeBounds ==
    (res.called /\ res.via = "tag" /\ arg.clause.rule.name = "range"
        /\ arg.value.k \in IntKinds) =>
       (res.err = NoErr <=> (arg.clause.rule.a <= arg.value.n
                               /\ arg.value.n <= arg.clause.rule.b))

\* The tag range:-5-5 on a signed field holding 0: refused as a malformed range.
C15_InsideRefused ==
    /\ res.called
    /\ res.via = "tag"
    /\ arg.clause.tag = "range:-5-5"
    /\ arg.value = NumVal("int", "int", 0)
    /\ res.err = <<"invalid range format: expected min-max", "Field">>

\* RangeRule itself, with negative bounds, on signed values: inclusive.
C15_RangeRuleNegativeBounds ==
    (res.called /\ res.via = "rule" /\ arg.clause.rule.name = "range"
        /\ arg.value.k \in IntKinds) =>
       (res.err = NoErr <=> (arg.clause.rule.a <= arg.value.n
                               /\ arg.value.n <= arg.clause.rule.b))

\* What min and max compare: an integer's value, a sequence's or mapping's
\* length.
Measure(value) == IF value.k \in {"slice", "map"} THEN Len(value.l) ELSE value.n

\* C16: min:N passes exactly when the value (or the length) is at least N,
\* max:N exactly when it is at most N, for signed and unsigned integers,
\* sequences and mappings, and for negative N too.
C16_MinMaxCompareValues ==
    (res.called /\ arg.clause.rule.name \in {"min", "max"}
        /\ arg.value.k \in IntKinds \cup UintKinds \cup {"slice", "map"}) =>
       (res.err = NoErr <=> IF arg.clause.rule.name = "min"
                            THEN Measure(arg.value) >= arg.clause.rule.a
                            ELSE Measure(arg.value) <= arg.clause.rule.a)

\* The same without the unsigned fields under a negative N.
C16_ExceptUnsignedNegative ==
    (res.called /\ arg.clause.rule.name \in {"min", "max"}
        /\ arg.value.k \in IntKinds \cup UintKinds \cup {"slice", "map"}
        /\ ~(arg.value.k \in UintKinds /\ arg.clause.rule.a < 0)) =>
       (res.err = NoErr <=> IF arg.clause.rule.name = "min"
                            THEN Measure(arg.value) >= arg.clause.rule.a
                            ELSE Measure(arg.value) <= arg.clause.rule.a)

\* min:-1 on an unsigned field holding 5: refused.
C16_UnsignedBelowNegativeMin ==
    /\ res.called
    /\ arg.clause.tag = "min:-1"
    /\ arg.value = NumVal("uint", "uint", 5)
    /\ res.err # NoErr

-----------------------------------------------------------------------------
(* SecretsProvider on directories with clean, padded, malformed, unmapped and *)
(* unreadable secret files                                                    *)

\* A file os.ReadFile fails on.
UnreadableEntry(name) == [name |-> name, isDir |-> FALSE, readable |-> FALSE, content |-> ""]

\* A subdirectory of the mount directory.
DirEntry(name) == [name |-> name, isDir |-> TRUE, readable |-> FALSE, content |-> ""]

\* The ways a secret of that name is in the directory: absent, unreadable, or
\* readable with one of the contents.
SecretVariants(name, contents) ==
    { << >>, <<UnreadableEntry(name)>> } \cup { <<FileEntry(name, c)>> : c \in contents }

\* The mount directories: os.ReadDir lists the entries sorted by name.
SecretDirectories ==
    { [exists |-> TRUE, listable |-> TRUE, entries |-> sub \o pass \o limit \o port \o unknown] :
        sub \in { << >>, <<DirEntry("A_DIR")>> },
        pass \in SecretVariants("DB_PASS", {"s3cret", "s3cret\n"}),
        limit \in SecretVariants("LIMIT", {"200", "300", "abc"}),
        port \in SecretVariants("SERVER_PORT", {"8443", "8443\n", "8443  "}),
        unknown \in SecretVariants("UNKNOWN_KEY", {"x"}) }

InitSecrets ==
    /\ providers = << Provider("secrets", << >>, SecretsPath) >>
    /\ validator = NoValidator
    /\ environ = [APP_SERVER_HOST |-> ""]
    /\ secretsDir \in SecretDirectories
    /\ goarch = "amd64"
    /\ observers = << >>
    /\ last = None
    /\ arg \in { [cfg |-> c] : c \in {ZeroConfig, ConfigOf("h0", 5, "p0", 3, 7, <<"a">>)} }
    /\ res = None

SpecSecrets == InitSecrets /\ [][LoadProvider]_vars

\* The fields the secret files above map to.
SecretLocs == {LocPass, LocLimit, LocPort}

HasSecret(name) ==
    \E i \in 1..Len(secretsDir.entries) :
        secretsDir.entries[i].name = name /\ ~secretsDir.entries[i].isDir

AllReadable ==
    \A i \in 1..Len(secretsDir.entries) :
        secretsDir.entries[i].isDir \/ secretsDir.entries[i].readable

IsReadable(name) ==
    \E i \in 1..Len(secretsDir.entries) :
        secretsDir.entries[i].name = name /\ secretsDir.entries[i].readable

\* C17: the value coerced is the file's content without its trailing
\* whitespace: when every file can be read, a field whose secret, so trimmed,
\* is a value for it holds that value (the text for a string, the number for
\* an integer).
C17_ContentTrimmed ==
    (res.called /\ AllReadable) =>
       \A loc \in SecretLocs :
          (IsReadable(SecretKey(loc))
              /\ FitsField(TrimRight(SecretContent(SecretKey(loc))), GetAt(arg.cfg, loc)))
             => Holds(GetAt(res.cfg, loc), TrimRight(SecretContent(SecretKey(loc))))

\* The content is applied as it is: the string field holds the newline, the
\* integer field is left alone.
C17_ContentKeptWhole ==
    /\ res.called
    /\ AllReadable
    /\ SecretContent("DB_PASS") = "s3cret\n"
    /\ GetAt(res.cfg, LocPass).s = "s3cret\n"
    /\ SecretContent("SERVER_PORT") = "8443\n"
    /\ GetAt(res.cfg, LocPort) = GetAt(arg.cfg, LocPort)

\* C18: a secret file that cannot be read does not fail the load: Load
\* returns no error and every other secret that is a value for its field is
\* applied.
C18_UnreadableIsWarning ==
    (res.called /\ ~AllReadable) =>
       /\ res.err = NoErr
       /\ \A loc \in SecretLocs :
             (IsReadable(SecretKey(loc))
                 /\ FitsField(SecretContent(SecretKey(loc)), GetAt(arg.cfg, loc)))
                => Holds(GetAt(res.cfg, loc), SecretContent(SecretKey(loc)))

\* DB_PASS cannot be read: Load returned the read error and SERVER_PORT, a
\* clean secret after it, was not applied.
C18_UnreadableStopsLoad ==
    /\ res.called
    /\ HasSecret("DB_PASS") /\ ~IsReadable("DB_PASS")
    /\ res.err = <<"failed to read secret file", "DB_PASS">>
    /\ SecretContent("SERVER_PORT") = "8443"
    /\ GetAt(arg.cfg, LocPort).n = 5
    /\ GetAt(res.cfg, LocPort).n = 5

\* The secret maps to no field, or is no value for its field even without
\* trailing whitespace.
Unmapped(entry) == \A loc \in SecretLocs : SecretKey(loc) # entry.name

Malformed(entry) ==
    \E loc \in SecretLocs :
        /\ SecretKey(loc) = entry.name
        /\ ~FitsField(TrimRight(entry.content), GetAt(arg.cfg, loc))

Inapplicable(entry) == ~entry.isDir /\ entry.readable /\ (Unmapped(entry) \/ Malformed(entry))

\* The entries without those secrets.
RECURSIVE Applicable(_)
Applicable(entries) ==
    IF entries = << >> THEN << >>
    ELSE IF Inapplicable(Head(entries)) THEN Applicable(Tail(entries))
    ELSE <<Head(entries)>> \o Applicable(Tail(entries))

\* C19: a secret that maps to no field or cannot be coerced into its field
\* leaves the field as it was, and the load ends as it would without that
\* file: the same record, and no error when every file can be read.
C19_InapplicableSecretSkipped ==
    res.called =>
       /\ \A i \in 1..Len(secretsDir.entries) : \A loc \in SecretLocs :
             (Inapplicable(secretsDir.entries[i]) /\ SecretKey(loc) = secretsDir.entries[i].name)
                => GetAt(res.cfg, loc) = GetAt(arg.cfg, loc)
       /\ res.cfg = ApplySecrets(arg.cfg, Applicable(secretsDir.entries)).cfg
       /\ res.err = ApplySecrets(arg.cfg, Applicable(secretsDir.entries)).err
       /\ AllReadable => res.err = NoErr
       /\ ~res.panic

\* LIMIT holds "abc" and UNKNOWN_KEY maps to nothing: the limit is still 7,
\* SERVER_PORT, read after LIMIT, was applied, and Load returned no error.
C19_Witness ==
    /\ res.called
    /\ SecretContent("LIMIT") = "abc"
    /\ HasSecret("UNKNOWN_KEY") /\ IsReadable("UNKNOWN_KEY")
    /\ GetAt(arg.cfg, LocLimit).n = 7
    /\ GetAt(res.cfg, LocLimit).n = 7
    /\ SecretContent("SERVER_PORT") = "8443"
    /\ GetAt(res.cfg, LocPort).n = 8443
    /\ res.err = NoErr

-----------------------------------------------------------------------------
(* DefaultValidator with explicit rules: AddRule, then Validate, repeatedly *)

\* The most rules added, and the most Validate calls made on a record.
MaxRules == 2
MaxValidateCalls == 2

\* The (path, rule) pairs callers add.
RuleChoices ==
    { <<"Server.Port", Rule("range", 1, 65535)>>,
      <<"Server.Host", Rule("required", 0, 0)>>,
      <<"Limit", Rule("min", 10, 0)>>,
      <<"Db.Pool.Size", Rule("max", 2, 0)>> }

InitValidate ==
    /\ providers = << >>
    /\ validator = Validator("default", << >>, TRUE, NoErr)
    /\ environ = [APP_SERVER_HOST |-> ""]
    /\ secretsDir = [exists |-> FALSE, listable |-> FALSE, entries |-> << >>]
    /\ goarch = "amd64"
    /\ observers = << >>
    /\ last = None
    /\ arg \in { [cfg |-> c] :
                   c \in { ZeroConfig, ConfigOf("h0", 5, "p0", 3, 7, <<"a">>),
                           ConfigOf("h1", 80, "p1", 1, 200, << >>) } }
    /\ res = [called |-> FALSE, errs |-> << >>, tags |-> << >>]

\* v.Rules[fieldPath] = rule: a new key is added, an existing key keeps its
\* place and gets the rule.
SetRule(rules, fieldPath, rule) ==
    IF \E i \in 1..Len(rules) : rules[i][1] = fieldPath
    THEN [i \in 1..Len(rules) |->
             IF rules[i][1] = fieldPath THEN <<fieldPath, rule>> ELSE rules[i]]
    ELSE Append(rules, <<fieldPath, rule>>)

\* AddRule
AddRule(fieldPath, rule) ==
    /\ ~res.called
    /\ Len(SetRule(validator.rules, fieldPath, rule)) <= MaxRules
    /\ validator' = [validator EXCEPT !.rules = SetRule(validator.rules, fieldPath, rule)]
    /\ UNCHANGED <<providers, environ, secretsDir, goarch, observers, last, arg, res>>

\* DisableTagValidation and EnableTagValidation
SetTagValidation(on) ==
    /\ validator.useTags # on
    /\ validator' = [validator EXCEPT !.useTags = on]
    /\ UNCHANGED <<providers, environ, secretsDir, goarch, observers, last, arg, res>>

DisableTagValidation == SetTagValidation(FALSE)
EnableTagValidation == SetTagValidation(TRUE)

\* res.tags keeps, for each call, whether tag validation was enabled then.
ValidateReturned(err) ==
    /\ Len(res.errs) < MaxValidateCalls
    /\ res' = [called |-> TRUE, errs |-> Append(res.errs, err),
               tags |-> Append(res.tags, validator.useTags)]
    /\ UNCHANGED <<providers, validator, environ, secretsDir, goarch, observers, last, arg>>

\* DefaultValidator.Validate on the record; each call ranges over the map of
\* rules in an order of its own.
Validate ==
    \E iter \in IterOrders(<< >>, validator) :
        ValidateReturned(DefaultValidatorValidate(validator, arg.cfg, iter))

NextValidate ==
    \/ \E r \in RuleChoices : AddRule(r[1], r[2])
    \/ DisableTagValidation
    \/ EnableTagValidation
    \/ Validate

SpecValidate == InitValidate /\ [][NextValidate]_vars

\* The rule registered at position i fails on the record.
FailsAt(i) ==
    CallRule(validator.rules[i][2],
             GetAt(StructOf(arg.cfg), getFieldValue(arg.cfg, validator.rules[i][1]).loc)) # NoErr

SomeRuleFails == \E i \in 1..Len(validator.rules) : FailsAt(i)

\* The position of the failing rule registered earliest.
FirstFailing == CHOOSE i \in 1..Len(validator.rules) :
                    FailsAt(i) /\ \A j \in 1..(i - 1) : ~FailsAt(j)

\* C20: Validate evaluates the explicit rules in the order AddRule registered
\* them and stops at the first that fails: the error names the failing path
\* registered earliest, and every Validate call on the record returns the
\* same error.
C20_RulesInRegistrationOrder ==
    res.called =>
       /\ SomeRuleFails =>
             \A k \in 1..Len(res.errs) :
                /\ res.errs[k][1] = "validation failed for field"
                /\ res.errs[k][2] = validator.rules[FirstFailing][1]
       /\ \A j, k \in 1..Len(res.errs) : res.errs[j] = res.errs[k]

\* Two rules that both fail on the record: the first Validate named the path
\* registered first, the second call the path registered second.
C20_RepeatedCallsDiffer ==
    /\ res.called
    /\ Len(validator.rules) = 2
    /\ FailsAt(1) /\ FailsAt(2)
    /\ Len(res.errs) = 2
    /\ res.errs[1][2] = validator.rules[1][1]
    /\ res.errs[2][2] = validator.rules[2][1]

\* With a single explicit rule the error is the rule's, on every call.
C20_SingleRuleStable ==
    (res.called /\ Len(validator.rules) = 1 /\ FailsAt(1)) =>
       \A k \in 1..Len(res.errs) :
          res.errs[k][2] = validator.rules[1][1] /\ res.errs[k] = res.errs[1]

\* A tag clause of Config fails on the record: Server.Host, Db.Pass and Limit
\* are required, Server.Port is tagged range:1-65535.
SomeTagFails ==
    \/ GetAt(arg.cfg, LocHost).s = ""
    \/ GetAt(arg.cfg, LocPort).n < 1 \/ GetAt(arg.cfg, LocPort).n > 65535
    \/ GetAt(arg.cfg, LocPass).s = ""
    \/ GetAt(arg.cfg, LocLimit).n = 0

\* The error of the explicit rule at position i.
RuleFailure(i) ==
    FailedFor(validator.rules[i][1],
              CallRule(validator.rules[i][2],
                       GetAt(StructOf(arg.cfg),
                             getFieldValue(arg.cfg, validator.rules[i][1]).loc)))

\* C22: Validate evaluates the explicit rules before any tag clause, with
\* tag validation enabled or not: when an explicit rule fails, the error is
\* an explicit rule's, whatever the tags say. When none fails, the call fails
\* exactly when tag validation was enabled, as it is on a new validator
\* until DisableTagValidation and again after EnableTagValidation, and a
\* tag clause fails.
C22_RulesBeforeTags ==
    res.called =>
       \A k \in 1..Len(res.errs) :
          IF SomeRuleFails
          THEN \E i \in 1..Len(validator.rules) : FailsAt(i) /\ res.errs[k] = RuleFailure(i)
          ELSE res.errs[k] # NoErr <=> (res.tags[k] /\ SomeTagFails)

\* On the zero record, whose first tag failure is Server.Host, with the rule
\* min:10 on Limit: a call with tag validation disabled and a call with it
\* enabled both returned the rule's failure on Limit.
C22_Witness ==
    /\ res.called
    /\ arg.cfg = ZeroConfig
    /\ validator.rules = << <<"Limit", Rule("min", 10, 0)>> >>
    /\ res.tags = <<FALSE, TRUE>>
    /\ res.errs[1] = FailedFor("Limit", <<"value is less than minimum">>)
    /\ res.errs[2] = FailedFor("Limit", <<"value is less than minimum">>)

\* On the zero record with no failing explicit rule: the call on the new
\* validator failed on a tag, the call after DisableTagValidation passed.
C22_TagsSwitchedOff ==
    /\ res.called
    /\ arg.cfg = ZeroConfig
    /\ ~SomeRuleFails
    /\ res.tags = <<TRUE, FALSE>>
    /\ res.errs[1] # NoErr
    /\ res.errs[2] = NoErr

-----------------------------------------------------------------------------
(* tag validation of a record with nested structs and a pointer to a struct *)

LeafOf(depth) == ListVal("struct", "Leaf", << NumVal("int", "int", depth) >>)

\* A *Tree holding the given values; back is the Back pointer.
TreeOf(name, size, depth, back, lastInt) ==
    PtrTo("*Tree",
          ListVal("struct", "Tree",
              << StrVal("string", name),
                 ListVal("struct", "Node", << NumVal("int", "int", size), LeafOf(depth) >>),
                 back,
                 NumVal("int", "int", lastInt) >>))

TreeRecords ==
    { TreeOf(name, size, depth, back, lastInt) :
        name \in {"", "x"}, size \in {0, 1, 3, 7}, depth \in {0, 4, 12},
        back \in {NilPtr("*Leaf"), PtrTo("*Leaf", LeafOf(0)), PtrTo("*Leaf", LeafOf(4))},
        lastInt \in {0, 1} }

InitTags ==
    /\ providers = << >>
    /\ validator = Validator("default", << >>, TRUE, NoErr)
    /\ environ = [APP_SERVER_HOST |-> ""]
    /\ secretsDir = [exists |-> FALSE, listable |-> FALSE, entries |-> << >>]
    /\ goarch = "amd64"
    /\ observers = << >>
    /\ last = None
    /\ arg \in { [cfg |-> c] : c \in TreeRecords }
    /\ res = None

TagsReturned(err) ==
    /\ ~res.called
    /\ res' = [called |-> TRUE, err |-> err]
    /\ UNCHANGED <<providers, validator, environ, secretsDir, goarch, observers, last, arg>>

\* DefaultValidator.Validate of a new validator on the record.
ValidateTree == TagsReturned(DefaultValidatorValidate(validator, arg.cfg, "fwd"))

SpecTags == InitTags /\ [][ValidateTree]_vars

\* The fields of the record.
TreeName      == GetAt(arg.cfg, <<1>>).s
TreeSize      == GetAt(arg.cfg, <<2, 1>>).n
TreeDepth     == GetAt(arg.cfg, <<2, 2, 1>>).n
TreeBack      == GetAt(arg.cfg, <<3>>)
TreeBackDepth == GetAt(arg.cfg, <<3, 1>>).n
TreeLast      == GetAt(arg.cfg, <<4>>).n

OutOfRange(n) ==
    IF n < 1 THEN <<"value is less than minimum">> ELSE <<"value is greater than maximum">>

\* The first failure of the depth-first traversal in declaration order: Name,
\* Node.Size (required, then min:2, then max:5), Node.Leaf.Depth, Back.Depth
\* when Back is not nil, Last.
FirstTagFailure ==
    IF TreeName = "" THEN FailedFor("Name", <<"value is required">>)
    ELSE IF TreeSize = 0 THEN FailedFor("Node.Size", <<"value is required">>)
    ELSE IF TreeSize < 2 THEN FailedFor("Node.Size", <<"value is less than minimum">>)
    ELSE IF TreeSize > 5 THEN FailedFor("Node.Size", <<"value is greater than maximum">>)
    ELSE IF TreeDepth < 1 \/ TreeDepth > 9
         THEN FailedFor("Node.Leaf.Depth", OutOfRange(TreeDepth))
    ELSE IF ~IsNil(TreeBack) /\ (TreeBackDepth < 1 \/ TreeBackDepth > 9)
         THEN FailedFor("Back.Depth", OutOfRange(TreeBackDepth))
    ELSE IF TreeLast = 0 THEN FailedFor("Last", <<"value is required">>)
    ELSE NoErr

\* C21: tag validation visits the fields depth-first in declaration order,
\* descends into nested structs and non-nil pointers to structs, tagged or
\* not, applies a field's clauses in the order written and returns the first
\* failure only.
C21_FirstFailureInTraversalOrder ==
    res.called => res.err = FirstTagFailure

\* Back points to a Leaf whose Depth is out of range and Last is zero, every
\* field before them passing: the error names Back.Depth.
C21_Witness ==
    /\ res.called
    /\ TreeName # "" /\ TreeSize = 3 /\ TreeDepth = 4
    /\ ~IsNil(TreeBack) /\ TreeBackDepth = 0
    /\ TreeLast = 0
    /\ res.err = FailedFor("Back.Depth", <<"value is less than minimum">>)

-----------------------------------------------------------------------------
(* resolving a dotted path through a pointer to a struct *)

ResolvePaths == {"Back.Depth", "Node.Leaf.Depth", "Back", "Name.Depth", "Gone.Depth"}

\* The default DefaultProvider.Load applies at the path.
ResolveDefault == NumVal("int", "int", 5)

InitResolve ==
    /\ providers = << >>
    /\ validator = NoValidator
    /\ environ = [APP_SERVER_HOST |-> ""]
    /\ secretsDir = [exists |-> FALSE, listable |-> FALSE, entries |-> << >>]
    /\ goarch = "amd64"
    /\ observers = << >>
    /\ last = None
    /\ arg \in { [cfg |-> c, path |-> p] : c \in TreeRecords, p \in ResolvePaths }
    /\ res = None

\* A resolver returned r; neither resolver assigns to the record.
Resolved(via, r) ==
    /\ ~res.called
    /\ res' = [called |-> TRUE, via |-> via, err |-> r.err, loc |-> r.loc, cfg |-> arg.cfg]
    /\ UNCHANGED <<providers, validator, environ, secretsDir, goarch, observers, last, arg>>

\* getFieldByPath on the struct the record points to.
GetFieldByPath == Resolved("getFieldByPath", getFieldByPath(Elem(arg.cfg), arg.path))

\* getFieldValue on the record.
GetFieldValue == Resolved("getFieldValue", getFieldValue(arg.cfg, arg.path))

DefaultLoaded(o) ==
    /\ ~res.called
    /\ res' = [called |-> TRUE, via |-> "default", err |-> o.err, loc |-> << >>, cfg |-> o.cfg]
    /\ UNCHANGED <<providers, validator, environ, secretsDir, goarch, observers, last, arg>>

\* DefaultProvider.Load with one default, at the path.
LoadDefaultAtPath ==
    DefaultLoaded(DefaultProviderLoad(<< <<arg.path, ResolveDefault>> >>, arg.cfg))

NextResolve == GetFieldByPath \/ GetFieldValue \/ LoadDefaultAtPath

SpecResolve == InitResolve /\ [][NextResolve]_vars

\* The Back pointer of the record after the call.
BackAfter == GetAt(res.cfg, <<3>>)

\* C23: resolving a path through a nil pointer to a struct allocates a zero
\* struct, attaches it to the record and goes on, so the resolve succeeds
\* with the final field; a populated pointer is descended into and not
\* replaced.
C23_NilPointerAllocated ==
    (res.called /\ res.via # "default" /\ arg.path = "Back.Depth") =>
       /\ res.err = NoErr
       /\ res.loc = <<3, 1>>
       /\ ~IsNil(BackAfter)
       /\ IF IsNil(TreeBack) THEN Elem(BackAfter) = Zero("struct", "Leaf")
          ELSE res.cfg = arg.cfg

\* Both resolvers refuse a path through the nil Back and leave it nil.
C23_NilPointerRefused ==
    /\ res.called
    /\ res.via # "default"
    /\ arg.path = "Back.Depth"
    /\ IsNil(TreeBack)
    /\ res.err # NoErr
    /\ IsNil(BackAfter)

\* A populated pointer is descended into: the resolve succeeds with the
\* field of the struct pointed to, and the record is as it was.
C23_PopulatedPointerDescended ==
    (res.called /\ res.via # "default" /\ arg.path = "Back.Depth" /\ ~IsNil(TreeBack)) =>
       (res.err = NoErr /\ res.loc = <<3, 1>> /\ res.cfg = arg.cfg)

\* A default for Back.Depth reaches the field exactly when Back is populated
\* and Depth is zero; with Back nil the record is unchanged and Load returns
\* no error.
C23_DefaultThroughPointer ==
    (res.called /\ res.via = "default" /\ arg.path = "Back.Depth") =>
       /\ res.err = NoErr
       /\ IF IsNil(TreeBack) THEN res.cfg = arg.cfg
          ELSE GetAt(res.cfg, <<3, 1>>).n = (IF TreeBackDepth = 0 THEN 5 ELSE TreeBackDepth)

-----------------------------------------------------------------------------
(* setFieldValue with an integer value on an integer field *)

\* The integer values set, of every kind: around zero and around the bounds
\* of each width.
IntegerValues ==
    UNION { { NumVal(k, k, x) :
                x \in Within(k, {-Pow2(WordBits - 1), -32769, -32768, -129, -128, -1, 0, 1, 5,
                                 127, 128, 255, 256, 32767, 32768, 65535, 65536,
                                 Pow2(WordBits - 1) - 1, Pow2(WordBits - 1),
                                 Pow2(WordBits) - 1}) } :
            k \in IntKinds \cup UintKinds }

\* The integer fields set, holding a value already.
IntegerFields == { NumVal(k, k, prior) : k \in IntKinds \cup UintKinds, prior \in {0, 7} }

InitIntegers ==
    /\ providers = << >>
    /\ validator = NoValidator
    /\ environ = [APP_SERVER_HOST |-> ""]
    /\ secretsDir = [exists |-> FALSE, listable |-> FALSE, entries |-> << >>]
    /\ goarch = "amd64"
    /\ observers = << >>
    /\ last = None
    /\ arg \in { [field |-> f, value |-> v] : f \in IntegerFields, v \in IntegerValues }
    /\ res = None

SpecIntegers == InitIntegers /\ [][SetFieldValue]_vars

\* The integer x is a value of kind k.
Representable(x, k) == Within(k, {x}) # { }

\* The field was assigned the value's number.
Assigned == res.err = NoErr /\ ~res.panic /\ res.field = [arg.field EXCEPT !.n = arg.value.n]

\* The value is signed and the field unsigned, or the reverse.
CrossSigned ==
    \/ arg.value.k \in IntKinds /\ arg.field.k \in UintKinds
    \/ arg.value.k \in UintKinds /\ arg.field.k \in IntKinds

\* The value and the field have the same signedness and different kinds.
OtherWidth ==
    /\ arg.value.k # arg.field.k
    /\ \/ arg.value.k \in IntKinds /\ arg.field.k \in IntKinds
       \/ arg.value.k \in UintKinds /\ arg.field.k \in UintKinds

\* C24: setFieldValue with a signed value on an unsigned field, or an
\* unsigned value on a signed field, assigns the value exactly when the field
\* can represent it, and otherwise returns an error and leaves the field; for
\* every value, the unsigned ones above the greatest signed 64-bit integer
\* included.
C24_CrossSignedExact ==
    (res.called /\ CrossSigned) =>
       IF Representable(arg.value.n, arg.field.k) THEN Assigned ELSE Refused

\* The same, the unsigned values above the greatest signed integer of the
\* word left out.
C24_ExceptAboveSignedMax ==
    (res.called /\ CrossSigned
        /\ ~(arg.value.k \in UintKinds /\ arg.value.n > Pow2(WordBits - 1) - 1)) =>
       IF Representable(arg.value.n, arg.field.k) THEN Assigned ELSE Refused

\* The greatest unsigned value of the word into an 8-bit signed field: no
\* error, and the field holds -1.
C24_WrappedAssigned ==
    /\ res.called
    /\ arg.value = NumVal("uint64", "uint64", Pow2(WordBits) - 1)
    /\ arg.field.k = "int8"
    /\ res.err = NoErr
    /\ res.field.n = -1

\* C25: setFieldValue on an integer field accepts an integer value of the
\* same signedness and another width, assigns it when it fits the field and
\* rejects it only on overflow.
C25_OtherWidthAssigned ==
    (res.called /\ OtherWidth) =>
       IF Representable(arg.value.n, arg.field.k) THEN Assigned ELSE Refused

\* A value of the same signedness and another kind is refused, fitting or not.
C25_OtherWidthRefused ==
    (res.called /\ OtherWidth) => (Refused /\ res.err = ErrIncompatibleType)

\* The int 5 into an int64 field holding 0: refused.
C25_LiteralRefused ==
    /\ res.called
    /\ arg.value = NumVal("int", "int", 5)
    /\ arg.field = NumVal("int64", "int64", 0)
    /\ Refused

-----------------------------------------------------------------------------
(* a text applied to a field of a kind that takes none *)

IntSlice(ints) == ListVal("slice", "[]int", [i \in 1..Len(ints) |-> NumVal("int", "int", ints[i])])

\* Fields that are not text, integer, float, boolean or a sequence of text.
UnsupportedFields ==
    { IntSlice(<< >>), IntSlice(<<4, 2>>),
      ListVal("map", "map[string]string", << >>),
      ListVal("map", "map[string]string", <<StrVal("string", "v")>>),
      NilPtr("*int"), PtrTo("*int", NumVal("int", "int", 3)),
      NilPtr("*Pool"), Zero("struct", "Pool") }

\* The texts applied.
AppliedTexts ==
    { StrVal("string", t) : t \in {"", "7", "1,2", "a,b", "true", "x", " 5 ", "k=v", "-3"} }

InitUnsupported ==
    /\ providers = << >>
    /\ validator = NoValidator
    /\ environ = [APP_SERVER_HOST |-> ""]
    /\ secretsDir = [exists |-> FALSE, listable |-> FALSE, entries |-> << >>]
    /\ goarch = "amd64"
    /\ observers = << >>
    /\ last = None
    /\ arg \in { [field |-> f, value |-> v] : f \in UnsupportedFields, v \in AppliedTexts }
    /\ res = None

SpecUnsupported == InitUnsupported /\ [][NextCoerce]_vars

\* C26: a text applied to a field that is not text, integer, float, boolean
\* or a sequence of text returns an error and leaves the field as it was;
\* success is never reported without an assignment.
C26_UnsupportedKindRefused ==
    res.called => Refused

\* The same for the fields that are not sequences; applyValueToField's error
\* is then the unsupported-type one.
C26_ExceptSequences ==
    (res.called /\ arg.field.k # "slice") =>
       /\ Refused
       /\ res.via = "applyValueToField" => res.err[1] = "unsupported field type"

\* applyValueToField of "1,2" on a []int holding 4, 2: no error, and the
\* field is as it was.
C26_IntSequenceSkipped ==
    /\ res.called
    /\ res.via = "applyValueToField"
    /\ arg.field = IntSlice(<<4, 2>>)
    /\ arg.value.s = "1,2"
    /\ res.err = NoErr
    /\ res.field = arg.field

\* setFieldValue refuses a text for every one of these fields.
C26_SetFieldValueRefuses ==
    (res.called /\ res.via = "setFieldValue") => (Refused /\ res.err = ErrIncompatibleType)

-----------------------------------------------------------------------------
(* EnvProvider.Load on a record with pointers to structs, nil or populated *)

\* A pointer the caller made, to the struct e; addr > 0 names the allocation.
PtrAt(t, addr, e) == [PtrTo(t, e) EXCEPT !.n = addr]

MidOf(size, ref) == ListVal("struct", "Mid", << NumVal("int", "int", size), ref >>)

\* A *Outer holding the given name and pointers.
OuterOf(name, link, ref) ==
    PtrTo("*Outer",
          ListVal("struct", "Outer",
              << StrVal("string", name), link, ListVal("struct", "Box", << ref >>) >>))

OuterRecords ==
    { OuterOf(name, link, ref) :
        name \in {"", "o"},
        link \in { NilPtr("*Mid"), PtrAt("*Mid", 1, MidOf(0, NilPtr("*Leaf"))),
                   PtrAt("*Mid", 1, MidOf(5, PtrAt("*Leaf", 2, LeafOf(2)))) },
        ref \in { NilPtr("*Leaf"), PtrAt("*Leaf", 3, LeafOf(7)) } }

\* The environments: variables for the scalar fields, and variables that
\* carry the names of the struct and pointer fields.
OuterEnvSpace ==
    { [APP_NAME |-> name, APP_SIZE |-> size, APP_DEPTH |-> depth,
       APP_LINK |-> c, APP_BOX |-> c, APP_REF |-> c] :
        name \in {"", "n"}, size \in {"", "3", "bad"}, depth \in {"", "4"},
        c \in {"", "8"} }

InitOuter ==
    /\ providers = << Provider("env", << >>, "APP") >>
    /\ validator = NoValidator
    /\ environ \in OuterEnvSpace
    /\ secretsDir = [exists |-> FALSE, listable |-> FALSE, entries |-> << >>]
    /\ goarch = "amd64"
    /\ observers = << >>
    /\ last = None
    /\ arg \in { [cfg |-> c] : c \in OuterRecords }
    /\ res = None

SpecOuter == InitOuter /\ [][LoadProvider]_vars

\* The pointer fields of Outer, outermost first: Link, Link.Ref, Box.Ref.
LocLink    == <<2>>
LocLinkRef == <<2, 2>>
LocBoxRef  == <<3, 1>>
PointerLocs == {LocLink, LocLinkRef, LocBoxRef}

\* The pointer at loc of the record c is there and populated.
Populated(c, loc) ==
    /\ loc = LocLinkRef => ~IsNil(GetAt(c, LocLink))
    /\ ~IsNil(GetAt(c, loc))

\* What a scalar variable leaves in a field that held old.
TextAfter(name, old) == IF environ[name] = "" THEN old ELSE environ[name]
IntAfter(name, old) ==
    CASE environ[name] = ""  -> old
      [] environ[name] = "3" -> 3
      [] environ[name] = "4" -> 4
      [] OTHER               -> old

\* The Leaf behind the pointer at loc after a Load that returned ok: the data
\* it held, or zero when the pointer was nil, with Depth from APP_DEPTH.
LeafAfter(loc) ==
    LeafOf(IntAfter("APP_DEPTH",
                    IF Populated(arg.cfg, loc) THEN GetAt(arg.cfg, loc \o <<1>>).n ELSE 0))

\* C27: after EnvProvider.Load returned ok, every pointer to a struct
\* reachable in the record is populated; a pointer that was populated is the
\* same pointer; and the struct and pointer fields were not assigned from
\* the variables that carry their names: the structs behind them hold what
\* they held, zero when new, but for the scalar fields' own variables.
C27_PointersMaterialized ==
    (res.called /\ res.err = NoErr) =>
       /\ \A loc \in PointerLocs :
             /\ Populated(res.cfg, loc)
             /\ Populated(arg.cfg, loc) =>
                   (GetAt(res.cfg, loc).n = GetAt(arg.cfg, loc).n /\ GetAt(res.cfg, loc).n > 0)
             /\ GetAt(res.cfg, loc).t = (IF loc = LocLink THEN "*Mid" ELSE "*Leaf")
       /\ Elem(GetAt(res.cfg, LocLinkRef)) = LeafAfter(LocLinkRef)
       /\ Elem(GetAt(res.cfg, LocBoxRef)) = LeafAfter(LocBoxRef)
       /\ GetAt(res.cfg, <<2, 1>>).n
             = IntAfter("APP_SIZE", IF Populated(arg.cfg, LocLink)
                                    THEN GetAt(arg.cfg, <<2, 1>>).n ELSE 0)
       /\ GetAt(res.cfg, <<1>>).s = TextAfter("APP_NAME", GetAt(arg.cfg, <<1>>).s)

\* A record with Link nil and Box.Ref populated, no scalar variable set and
\* APP_LINK, APP_BOX and APP_REF set: Load returned ok, Link and Link.Ref are
\* populated with zero structs, Box.Ref is the pointer it was.
C27_Witness ==
    /\ res.called
    /\ res.err = NoErr
    /\ IsNil(GetAt(arg.cfg, LocLink))
    /\ Populated(arg.cfg, LocBoxRef)
    /\ environ.APP_SIZE = "" /\ environ.APP_DEPTH = "" /\ environ.APP_LINK = "8"
    /\ Elem(GetAt(res.cfg, LocLink)) = MidOf(0, PtrTo("*Leaf", LeafOf(0)))
    /\ GetAt(res.cfg, LocBoxRef) = GetAt(arg.cfg, LocBoxRef)

-----------------------------------------------------------------------------
(* EnvProvider.Load call by call: the stack of processStruct calls *)

\* The most processStruct calls the goroutine's stack holds: the runtime ends
\* the program with a stack overflow when a call would exceed it.
MaxStack == 6

\* A processStruct call in progress: the struct v it processes and the loop
\* index i (from 1).
Frame(v, i) == [v |-> v, i |-> i]

ChainOf(id, next) == ListVal("struct", "Chain", << NumVal("int", "int", id), next >>)

\* What is loaded: records of the tree-shaped type Outer, records of types
\* that refer to themselves, and a nil pointer.
WalkRecords ==
    OuterRecords
      \cup { PtrTo("*Chain", ChainOf(0, NilPtr("*Chain"))),
             PtrTo("*Chain", ChainOf(1, PtrAt("*Chain", 1, ChainOf(2, NilPtr("*Chain"))))),
             PtrTo("*Ping", Zero("struct", "Ping")),
             NilPtr("*Outer") }

WalkEnvSpace ==
    { [APP_NAME |-> name, APP_SIZE |-> size, APP_DEPTH |-> depth, APP_ID |-> id] :
        name \in {"", "n"}, size \in {"", "3", "bad"}, depth \in {"", "4"},
        id \in {"", "7", "bad"} }

InitWalk ==
    /\ providers = << Provider("env", << >>, "APP") >>
    /\ validator = NoValidator
    /\ environ \in WalkEnvSpace
    /\ secretsDir = [exists |-> FALSE, listable |-> FALSE, entries |-> << >>]
    /\ goarch = "amd64"
    /\ observers = << >>
    /\ last = None
    /\ arg \in { [cfg |-> c] : c \in WalkRecords }
    /\ res = [called |-> FALSE, status |-> "idle", stack |-> << >>, err |-> NoErr,
              cfg |-> arg.cfg]

WalkTo(status, stack, err, c) ==
    /\ res' = [called |-> TRUE, status |-> status, stack |-> stack, err |-> err, cfg |-> c]
    /\ UNCHANGED <<providers, validator, environ, secretsDir, goarch, observers, last, arg>>

\* The innermost call, the field its loop is at, and that field's declaration.
TopFrame == res.stack[Len(res.stack)]
AtField == TopFrame.v.l[TopFrame.i]
AtDecl == StructDef(TopFrame.v.t)[TopFrame.i]

\* The stack with its innermost call replaced.
WithTop(frame) == [res.stack EXCEPT ![Len(res.stack)] = frame]

\* The innermost call is in its loop, no error met.
InLoop ==
    /\ res.status = "running"
    /\ res.err = NoErr
    /\ TopFrame.i <= Len(StructDef(TopFrame.v.t))

\* The field the loop is at leads to a struct: a struct field, or a pointer
\* to a struct, nil or not.
LeadsToStruct ==
    \/ AtField.k = "struct"
    \/ AtField.k = "ptr" /\ ElemType(AtField.t).k = "struct"

\* The struct the recursive call processes, a new one behind a nil pointer.
StructBehind(field) ==
    CASE field.k = "struct" -> field
      [] IsNil(field)       -> Zero("struct", ElemType(field.t).t)
      [] OTHER              -> Elem(field)

\* The field once the recursive call is made: a nil pointer has been set to
\* the new struct.
Materialized(field) ==
    IF field.k = "ptr" /\ IsNil(field)
    THEN PtrTo(field.t, Zero("struct", ElemType(field.t).t)) ELSE field

\* EnvProvider.Load is called: applyEnvVariables checks the record and calls
\* processStruct on its struct.
CallLoad ==
    /\ res.status = "idle"
    /\ IF ~IsPtrToStruct(arg.cfg) THEN WalkTo("returned", << >>, ErrInvalidConfig, arg.cfg)
       ELSE WalkTo("running", << Frame(Elem(arg.cfg), 1) >>, NoErr, arg.cfg)

\* The recursive call of processStruct for a struct or pointer field.
Descend ==
    /\ InLoop
    /\ LeadsToStruct
    /\ Len(res.stack) < MaxStack
    /\ WalkTo("running",
              Append(WithTop(Frame([TopFrame.v EXCEPT !.l[TopFrame.i] = Materialized(AtField)],
                                   TopFrame.i)),
                     Frame(StructBehind(AtField), 1)),
              NoErr, res.cfg)

\* The recursive call the stack has no room for.
Overflow ==
    /\ InLoop
    /\ LeadsToStruct
    /\ Len(res.stack) = MaxStack
    /\ WalkTo("overflow", res.stack, NoErr, res.cfg)

\* The innermost call after applyValueToField left outcome a on the field.
AppliedStep(envVarName, a) ==
    IF a.err # NoErr
    THEN WalkTo("running",
                WithTop(Frame([TopFrame.v EXCEPT !.l[TopFrame.i] = Stored(a.field)], TopFrame.i)),
                <<"failed to apply environment variable", envVarName>> \o a.err, res.cfg)
    ELSE WalkTo("running",
                WithTop(Frame([TopFrame.v EXCEPT !.l[TopFrame.i] = Stored(a.field)],
                              TopFrame.i + 1)),
                NoErr, res.cfg)

\* The loop body for any other field, its variable being envVarName.
ScalarStep(envVarName) ==
    IF AtField.k = "ptr" \/ Getenv(envVarName) = ""
    THEN WalkTo("running", WithTop(Frame(TopFrame.v, TopFrame.i + 1)), NoErr, res.cfg)
    ELSE \E a \in {applyValueToField(FieldValue(AtField, TRUE), Getenv(envVarName))} :
            AppliedStep(envVarName, a)

ApplyStep ==
    /\ InLoop
    /\ ~LeadsToStruct
    /\ \E envVarName \in {EnvVarName("APP", IF AtDecl.env # "" THEN AtDecl.env
                                             ELSE AtDecl.name)} :
          ScalarStep(envVarName)

\* The caller's frame once the call for its field returned with struct v:
\* the loop goes on unless an error came back.
Resumed(caller, v) ==
    Frame([caller.v EXCEPT !.l[caller.i] =
              IF caller.v.l[caller.i].k = "ptr" THEN Pointing(caller.v.l[caller.i], v) ELSE v],
          IF res.err # NoErr THEN caller.i ELSE caller.i + 1)

\* The innermost call returns: at the end of its loop, or with the error met.
ReturnStep ==
    /\ res.status = "running"
    /\ res.err # NoErr \/ TopFrame.i > Len(StructDef(TopFrame.v.t))
    /\ IF Len(res.stack) = 1
       THEN WalkTo("returned", << >>, res.err, PtrTo(arg.cfg.t, TopFrame.v))
       ELSE WalkTo("running",
                   Append(SubSeq(res.stack, 1, Len(res.stack) - 2),
                          Resumed(res.stack[Len(res.stack) - 1], TopFrame.v)),
                   res.err, res.cfg)

NextWalk == CallLoad \/ Descend \/ Overflow \/ ApplyStep \/ ReturnStep

SpecWalk == InitWalk /\ [][NextWalk]_vars

\* The program runs on while a step can be taken.
SpecWalkFair == SpecWalk /\ WF_vars(NextWalk)

\* C28: EnvProvider.Load terminates on every record type, a struct type with
\* a pointer to its own type, directly or through other structs, included:
\* the call returns.
C28_LoadReturns == <>(res.status = "returned")

\* On the records of the tree-shaped type the call returns.
C28_TreeRecordsReturn == (arg.cfg.t = "*Outer") => <>(res.status = "returned")

\* and returns what EnvProvider.Load computes in one piece.
C28_SameAsLoad ==
    (res.status = "returned" /\ arg.cfg.t = "*Outer") =>
       /\ res.err = EnvProviderLoad("APP", arg.cfg).err
       /\ res.cfg = EnvProviderLoad("APP", arg.cfg).cfg

\* On a *Chain with no variable set, the stack is full of processStruct
\* calls, the innermost on a struct the one before it made.
C28_StackOverflow ==
    /\ res.status = "overflow"
    /\ arg.cfg = PtrTo("*Chain", ChainOf(0, NilPtr("*Chain")))
    /\ environ.APP_ID = ""
    /\ Len(res.stack) = MaxStack
    /\ TopFrame.v = Zero("struct", "Chain")

\* A call on a type that refers to itself returns only with an error.
C28_SelfReferenceNeverOk ==
    (res.status = "returned" /\ arg.cfg.t \in {"*Chain", "*Ping"}) => res.err # NoErr

-----------------------------------------------------------------------------
(* DefaultProvider.Load with defaults that do not resolve or do not fit *)

\* DefaultValues holds a usable default for the field at loc.
Usable(loc) ==
    \E i \in 1..Len(providers[1].values) :
        /\ providers[1].values[i][1] = StructDef("Scalars")[loc[1]].name
        /\ providers[1].values[i] \in UsableDefaults

\* The field holds the default d: its data, or the number a numeral spells.
Filled(field, d) ==
    IF field.k # "string" /\ d.k = "string" THEN field.n = 12 /\ ~field.b /\ field.s = ""
    ELSE SameData(field, d)

\* C29: DefaultProvider.Load on a valid record never fails or aborts: a
\* default whose path does not resolve or whose value cannot be assigned (an
\* incompatible kind, an overflow, the same kind under another named type) is
\* skipped with the field unchanged, the other defaults are applied, and
\* Load returns ok.
C29_UnusableDefaultsSkipped ==
    res.called =>
       /\ ~res.panic
       /\ res.err = NoErr
       /\ \A loc \in ScalarLocs :
             IF AtZero(GetAt(arg.cfg, loc)) /\ Usable(loc)
             THEN Filled(GetAt(res.cfg, loc), DefaultFor(loc))
             ELSE GetAt(res.cfg, loc) = GetAt(arg.cfg, loc)

\* The int default for the zero Lvl of type Level, met first.
NamedTypeMet ==
    /\ AtZero(GetAt(arg.cfg, <<7>>))
    /\ \E i \in 1..Len(providers[1].values) :
          providers[1].values[i] = <<"Lvl", NumVal("int", "int", 3)>>

\* The same, but for the loads that meet the int default for a zero Lvl.
C29_ExceptNamedType ==
    (res.called /\ ~NamedTypeMet) =>
       /\ ~res.panic
       /\ res.err = NoErr
       /\ \A loc \in ScalarLocs :
             IF AtZero(GetAt(arg.cfg, loc)) /\ Usable(loc)
             THEN Filled(GetAt(res.cfg, loc), DefaultFor(loc))
             ELSE GetAt(res.cfg, loc) = GetAt(arg.cfg, loc)

\* DefaultValues holds the int 3 for Lvl and "dflt" for Name, the record's
\* Lvl and Name are zero: Load panicked, and Name is still empty.
C29_NamedTypeAborts ==
    /\ res.called
    /\ providers[1].values = << <<"Lvl", NumVal("int", "int", 3)>>,
                                <<"Name", StrVal("string", "dflt")>> >>
    /\ AtZero(GetAt(arg.cfg, <<7>>))
    /\ AtZero(GetAt(arg.cfg, <<6>>))
    /\ res.panic
    /\ GetAt(res.cfg, <<6>>).s = ""

-----------------------------------------------------------------------------
(* EnvProvider.Load with variables unset, set to the empty string, or set *)

\* The variables of Config's tagged fields under the prefix APP, and a value
\* for each.
SetVariables == {"APP_SERVER_HOST", "APP_SERVER_PORT", "APP_POOL_SIZE", "APP_LIMIT"}

ValueOfVariable(name) ==
    CASE name = "APP_SERVER_HOST" -> "testhost"
      [] name = "APP_SERVER_PORT" -> "9090"
      [] name = "APP_POOL_SIZE"   -> "12"
      [] OTHER                    -> "200"

\* The environments: each variable is unset (not in the environment), set to
\* the empty string, or set to its value.
SetEnvSpace ==
    { [name \in present |-> IF name \in empty THEN "" ELSE ValueOfVariable(name)] :
        present \in SUBSET SetVariables, empty \in SUBSET SetVariables }

InitSetEnv ==
    /\ providers = << Provider("env", << >>, "APP") >>
    /\ validator = NoValidator
    /\ environ \in SetEnvSpace
    /\ secretsDir = [exists |-> FALSE, listable |-> FALSE, entries |-> << >>]
    /\ goarch = "amd64"
    /\ observers = << >>
    /\ last = None
    /\ arg \in { [cfg |-> c] : c \in {ZeroConfig, ConfigOf("h0", 5, "p0", 3, 7, <<"a">>)} }
    /\ res = None

SpecSetEnv == InitSetEnv /\ [][LoadProvider]_vars

\* The variable of the field at loc is unset, or set to the empty string.
UnsetAt(loc) == UpperName(loc) \notin DOMAIN environ
EmptyAt(loc) == UpperName(loc) \in DOMAIN environ /\ environ[UpperName(loc)] = ""

\* C30: EnvProvider treats a variable set to the empty string as it treats
\* an unset one: the field keeps the value it held, so a variable never
\* resets a field to empty or zero.
C30_EmptyLikeUnset ==
    res.called =>
       /\ \A loc \in TaggedLocs :
             (UnsetAt(loc) \/ EmptyAt(loc)) => GetAt(res.cfg, loc) = GetAt(arg.cfg, loc)
       /\ res.err = NoErr

\* APP_SERVER_HOST and APP_SERVER_PORT are set to the empty string, APP_LIMIT
\* is unset and APP_POOL_SIZE is set to 12: the host, port and limit are what
\* they were, the size is 12.
C30_Witness ==
    /\ res.called
    /\ EmptyAt(LocHost) /\ EmptyAt(LocPort) /\ UnsetAt(LocLimit)
    /\ GetAt(arg.cfg, LocHost).s = "h0"
    /\ GetAt(res.cfg, LocHost).s = "h0"
    /\ GetAt(res.cfg, LocPort).n = 5
    /\ GetAt(res.cfg, LocLimit).n = 7
    /\ GetAt(res.cfg, LocSize).n = 12

====
